---- MODULE Spec2Model ----
(***************************************************************************)
(* A model of dronebot.py's live control loop (run_live) and of the        *)
(* functions it calls: broker-position reconciliation with the anti-short  *)
(* cover, the session gate, the per-symbol evaluation, and the outer       *)
(* reconnect loop.                                                         *)
(*                                                                         *)
(* Prices are integers (price units); percentages are kept exact by        *)
(* cross-multiplication.  Where a number is expected, Python's None is NIL *)
(* and float('nan') is NAN, two values no price takes.                     *)
(***************************************************************************)
EXTENDS Integers, Sequences, FiniteSets, TLC

NIL == -1
NAN == -2
\* float('inf') and float('-inf'), where the two need not be told apart.
INF == -3

\* ------------------------------------------------------------------ bounds
\* Largest |quantity| the broker reports for a symbol.
MaxQty == 2
\* Most fills of ladder and risk orders followed per connection; an order
\* past it comes back unfilled.
MaxFills == 1
\* Largest |realized P&L| of a symbol followed; an order past it comes back
\* unfilled.
MaxPnl == 20
\* VWVState(window=...): capacity of the deque of dollar-volume increments.
Window == 4
\* Bits of significand of a float.
MantissaBits == 7

\* ------------------------------------------------------- program constants
\* AM_START, AM_END, PM_START, PM_END as minutes of the day.
AM_START == 570
AM_END == 660
PM_START == 840
PM_END == 960
\* BUY_COOLDOWN_SEC (3.0 s), in tenths of a second.
BUY_COOLDOWN_SEC == 30
\* SPREAD_LIMIT_RISKY / SPREAD_LIMIT_SAFE, basis points.
SPREAD_LIMIT_RISKY == 180
SPREAD_LIMIT_SAFE == 80
\* HARD_STOP_PCT (5.0 %), and TRAIL_PCT (2.5 %) in tenths of a percent.
HARD_STOP_PCT == 5
TRAIL_PCT10 == 25
\* BREAKEVEN_MIN_UPNL_BP (5 basis points); BREAKEVEN_TRIM_FRACTION (0.25) as
\* the divisor 1 / 0.25.
BREAKEVEN_MIN_UPNL_BP == 5
BREAKEVEN_TRIM_DIV == 4

\* ----------------------------------------------------------------- inputs
\* targets.txt lists "A" and "B", or "A" alone; beside two targets the account
\* may also hold "X", for which run_live qualifies no contract.  A broker report lists symbols in
\* ReportOrder.
ReportOrder == <<"A", "B", "X">>
AllSymbols == {"A", "B", "X"}
\* now.time() as seen by a tick: 09:30, 11:00 and 16:00.
Times == {570, 660, 960}
\* Tenths of a second from one tick's now_ts to the next: the 0.9 s sleep plus
\* the broker round trips.
TickLengths == {15}
\* The average cost the broker reports for a position that is not flat.
BrokerAvg == 106
\* Valid trade prices quoted.
LastPrices == {88, 108}
\* Cumulative day volumes quoted, and the price of the quotes that carry one.
Volumes == {1, 2}
VolumePrice == 88

VARIABLES
    pc,             \* position of run_live
    connected,      \* ib.isConnected()
    anchor_mult,    \* the module global ANCHOR_DISTANCE_MULT, NIL when unbound
                    \* (a use then raises NameError)
    targets,        \* targets, in iteration order
    tnow,           \* now.time(), minutes of the day
    was_in_session, \* "None", "True" or "False"
    was_in_rth,     \* "None", "True" or "False"
    pos, avg, rpnls, trail_hi,   \* per-symbol live state
    since_buy,      \* now_ts - last_buy_time[sym], capped at BUY_COOLDOWN_SEC
    vwv,            \* per target: [dv: deque of increments, last_total_vol]
    broker_pos,     \* the report read at this tick's sync (a sequence)
    query_ok,       \* whether this tick's reqPositions returned
    idx,            \* index into targets of the symbol evaluated next
    fills,          \* ladder and risk orders filled on this connection
    orders,         \* orders submitted by the last step, in order
    events,         \* what the steps of this tick did, in order
    overrides_file, \* the dashboard's overrides file: whether it exists, its JSON
    overrides_tmp,  \* the file next to it with the suffix .tmp
    overrides_lock, \* _OVERRIDES_LOCK: the handler thread holding it, 0 when free
    handlers        \* the dashboard's handler threads: position, request, locals

\* The state of the dashboard server (entry_dashboard.py, dronebot_toolkit.py).
ovars == <<overrides_file, overrides_tmp, overrides_lock, handlers>>

vars == <<pc, connected, anchor_mult, targets, tnow, was_in_session,
          was_in_rth, pos, avg, rpnls, trail_hi, since_buy, vwv, broker_pos,
          query_ok, idx, fills, orders, events,
          overrides_file, overrides_tmp, overrides_lock, handlers>>

\* ---------------------------------------------------------------- helpers
Abs(x) == IF x < 0 THEN -x ELSE x
Max(a, b) == IF a >= b THEN a ELSE b
Min(a, b) == IF a <= b THEN a ELSE b
Range(s) == {s[i] : i \in 1..Len(s)}

\* contracts = {sym: Stock(sym)} for sym in targets
contracts == Range(targets)

\* A faulty in_rth that takes the closing minute for trading time.
InRthThroughClose(t) == AM_START <= t /\ t <= PM_END

\* in_session / in_rth of a tick
InSession(t) == (AM_START <= t /\ t < AM_END) \/ (PM_START <= t /\ t < PM_END)
InRth(t) == AM_START <= t /\ t < PM_END


\* ------------------------------------------------- broker position report
\* What reqPositions can list for one symbol: nothing, or (position, avgCost),
\* the average cost being 0 for a flat position.  The first target is reported
\* for up to MaxQty shares either way, the second (when it is a target) for
\* one, and the untracked symbol as short one share.
BrokerQtys(sym) ==
    IF sym = ReportOrder[1] THEN (-MaxQty)..MaxQty
    ELSE IF sym \in contracts THEN {-1, 0, 1}
    ELSE IF sym = "X" /\ Len(targets) > 1 THEN {-1}
    ELSE {}

BrokerEntries(sym) ==
    {[sym |-> sym, pos |-> q, avg |-> IF q = 0 THEN 0 ELSE BrokerAvg] :
        q \in BrokerQtys(sym)}

RECURSIVE ReportsFrom(_)
\* every report that lists a subset of ReportOrder[k..], in that order
ReportsFrom(k) ==
    IF k > Len(ReportOrder) THEN {<<>>}
    ELSE LET rest == ReportsFrom(k + 1)
         IN rest \cup {<<e>> \o r : e \in BrokerEntries(ReportOrder[k]), r \in rest}

Reports == ReportsFrom(1)

\* The per-symbol state an order can touch.
Snap(st, sym) ==
    [pos |-> st.pos[sym], avg |-> st.avg[sym], rpnl |-> st.rpnls[sym],
     hi |-> st.trail_hi[sym]]

\* A faulty mirror that copies the broker's quantity as it is.
SyncMirrorUnclamped(st, sym, bpos, bavg) ==
    [st EXCEPT !.pos[sym] = bpos, !.avg[sym] = bavg]

\* "Sync our local mirrors to broker's long-only state"
SyncMirror(st, sym, bpos, bavg) ==
    IF bpos <= 0
    THEN [st EXCEPT !.pos[sym] = 0, !.avg[sym] = 0]
    ELSE [st EXCEPT !.pos[sym] = Max(0, bpos), !.avg[sym] = bavg]

\* The symbols of a report for which the anti-short guard submits a cover:
\* a negative position and a contract (c is not None).
NeedsCover(sym, bpos) == bpos < 0 /\ sym \in contracts

\* A faulty cover handling that falls through to the mirror whatever filled.
AfterCoverFallThrough(st, sym, qty, filled) ==
    LET st2 == [SyncMirror(st, sym, 0, 0) EXCEPT
                   !.events = Append(@, [kind |-> "cover_incomplete", sym |-> sym])]
    IN [st2 EXCEPT !.orders = Append(@,
            [sym |-> sym, side |-> "BUY", qty |-> qty, urgency |-> "urgent",
             tag |-> "anti_short_cover", filled |-> filled,
             px |-> IF filled > 0 THEN BrokerAvg ELSE NIL,
             before |-> Snap(st, sym), after |-> Snap(st2, sym)])]

\* The loop body after place_ioc_buy returned (px, filled) for a cover of qty.
\* A full fill corrects the broker quantity to 0 and falls through to the
\* mirror; anything less logs the anomaly and continues with the next symbol.
AfterCover(st, sym, qty, filled) ==
    LET st1 == IF filled > 0 THEN [st EXCEPT !.since_buy[sym] = 0] ELSE st
        st2 == IF filled >= qty
               THEN [SyncMirror(st1, sym, 0, 0) EXCEPT
                        !.events = Append(@, [kind |-> "synced", sym |-> sym])]
               ELSE [st1 EXCEPT
                        !.events = Append(@, [kind |-> "cover_incomplete", sym |-> sym])]
    IN [st2 EXCEPT !.orders = Append(@,
            [sym |-> sym, side |-> "BUY", qty |-> qty, urgency |-> "urgent",
             tag |-> "anti_short_cover", filled |-> filled,
             px |-> IF filled > 0 THEN BrokerAvg ELSE NIL,
             before |-> Snap(st, sym), after |-> Snap(st2, sym)])]

RECURSIVE SyncFrom(_, _, _)
\* for sym, (bpos, bavg) in broker_pos.items(), from entry k on: the set of
\* outcomes, one per way the cover orders can end (a fill of 0..qty, or an
\* exception, which leaves the loop for "position sync error").
SyncFrom(k, rep, st) ==
    IF k > Len(rep) THEN {st}
    ELSE LET e == rep[k] IN
         IF NeedsCover(e.sym, e.pos)
         THEN {[st EXCEPT !.events = Append(@, [kind |-> "sync_error", sym |-> e.sym])]}
              \cup UNION {SyncFrom(k + 1, rep, AfterCover(st, e.sym, Abs(e.pos), f)) :
                             f \in 0..Abs(e.pos)}
         ELSE SyncFrom(k + 1, rep,
                  [SyncMirror(st, e.sym, e.pos, e.avg) EXCEPT
                      !.events = Append(@, [kind |-> "synced", sym |-> e.sym])])

\* The live state as one record, for the operators above.
Live ==
    [pos |-> pos, avg |-> avg, rpnls |-> rpnls, trail_hi |-> trail_hi,
     since_buy |-> since_buy, orders |-> <<>>, events |-> <<>>]


\* ------------------------------------------------------------ market data
\* A faulty filter that lets a price of 0 through.
SanitizePriceKeepsZero(value) ==
    IF value = NIL \/ value = NAN THEN NIL
    ELSE IF value = INF \/ value < 0 THEN NIL ELSE value

\* sanitize_price: a positive finite price, or None.
sanitize_price(value) ==
    IF value = NIL \/ value = NAN THEN NIL
    ELSE IF value = INF \/ value <= 0 THEN NIL ELSE value

\* Python's "a or b" on prices: a unless it is None or 0.
Or(a, b) == IF a = NIL \/ a = 0 THEN b ELSE a

\* Tickers ib.ticker(c) can return for a symbol.  Only the first target's feed
\* carries the day volume, and only on a quote at VolumePrice; the volume is
\* cumulative, never under the one the tracker of this connection stored.
\* A quote prices the symbol through t.last (with or without t.close) or
\* through t.marketPrice() alone, with a 1-unit spread;
\* NoBidAsk has neither bid nor ask, WideQuote a spread far over the limit,
\* NoPrice no usable price at all.
QuoteVolumes(sym, l) ==
    IF sym = ReportOrder[1] /\ l = VolumePrice
    THEN {NIL} \cup {v \in Volumes : vwv[sym].last_total_vol = NIL
                                      \/ v >= vwv[sym].last_total_vol}
    ELSE {NIL}

QuotesAt(sym, l) ==
    {[last |-> l, close |-> 100, mkt |-> l, bid |-> l, ask |-> l + 1,
      open |-> 100, volume |-> v] : v \in QuoteVolumes(sym, l)}
    \cup
    {[last |-> l, close |-> NIL, mkt |-> l, bid |-> l, ask |-> l + 1,
      open |-> o, volume |-> v] : o \in {NIL, 100}, v \in QuoteVolumes(sym, l)}
    \cup
    {[last |-> NIL, close |-> NIL, mkt |-> l, bid |-> l, ask |-> l + 1,
      open |-> o, volume |-> v] : o \in {NIL, 100}, v \in QuoteVolumes(sym, l)}

PricedQuotes(sym) == UNION {QuotesAt(sym, l) : l \in LastPrices}

NoBidAsk == [last |-> 88, close |-> 100, mkt |-> 88, bid |-> NIL, ask |-> NIL,
             open |-> 100, volume |-> NIL]
WideQuote == [last |-> 88, close |-> 100, mkt |-> 88, bid |-> 84, ask |-> 92,
              open |-> 100, volume |-> NIL]
NoPrice == [last |-> NIL, close |-> 0, mkt |-> NAN, bid |-> NIL, ask |-> NIL,
            open |-> NIL, volume |-> NIL]

Quotes(sym) == PricedQuotes(sym) \cup {NoBidAsk, WideQuote, NoPrice}

\* last = the first usable of t.last, t.close, t.marketPrice()
LastOf(t) ==
    IF sanitize_price(t.last) # NIL THEN sanitize_price(t.last)
    ELSE IF sanitize_price(t.close) # NIL THEN sanitize_price(t.close)
    ELSE sanitize_price(t.mkt)

\* spr_lim = SPREAD_LIMIT_RISKY if classification == 'risky' else SPREAD_LIMIT_SAFE
spr_lim(classification) ==
    IF classification = "risky" THEN SPREAD_LIMIT_RISKY ELSE SPREAD_LIMIT_SAFE

\* A faulty filter that also skips a symbol whose spread cannot be computed.
SpreadOverOrMissing(bid, ask, limit) ==
    \/ bid = NIL \/ ask = NIL
    \/ (ask - bid) * 20000 > limit * (bid + ask)

\* spread_bps(bid, ask) > limit, without the division:
\* (ask - bid) / ((bid + ask) / 2) * 10000 > limit
SpreadOver(bid, ask, limit) ==
    /\ bid # NIL /\ ask # NIL
    /\ (ask - bid) * 20000 > limit * (bid + ask)

\* ----------------------------------------------------------------- config
\* The record read_targets builds for a line "SYM clip=50": class risky,
\* buy 2.0 %, sell 1.5 % (tenths of a percent here), clip override 50 USD.
rec(sym) == [class |-> "risky", buy10 |-> 20, sell10 |-> 15, clip |-> 50]

\* Anchors anchors_from_bars can have seeded for a symbol ({} when the seed
\* failed or no bar qualified).
NoFeats == [pma_mid |-> NIL, ib_mid |-> NIL, rth_mid |-> NIL]
feats_map(sym) == NoFeats

\* sorted(xs)
RECURSIVE Insert(_, _)
Insert(x, q) ==
    IF q = <<>> THEN <<x>>
    ELSE IF x <= Head(q) THEN <<x>> \o q ELSE <<Head(q)>> \o Insert(x, Tail(q))

RECURSIVE Sorted(_)
Sorted(xs) == IF xs = <<>> THEN <<>> ELSE Insert(Head(xs), Sorted(Tail(xs)))

\* mid_span(xs)[0]: s[len(s)//2] of the sorted closes, None for none
mid_span(xs) == IF xs = <<>> THEN NIL ELSE Sorted(xs)[Len(xs) \div 2 + 1]

\* [b.close for b in bars if <window> and b.close]
ClosesOf(bars, from, to) ==
    LET kept == SelectSeq(bars, LAMBDA b : /\ from <= b.t /\ (to = NIL \/ b.t < to)
                                           /\ Or(b.close, NIL) # NIL)
    IN [i \in 1..Len(kept) |-> kept[i].close]

\* anchors_from_bars(bars), bars as records of a time of day t (minutes) and a
\* close
anchors_from_bars(bars) ==
    [pma_mid |-> mid_span(ClosesOf(bars, 0, AM_START)),
     ib_mid |-> mid_span(ClosesOf(bars, AM_START, 600)),
     rth_mid |-> mid_span(ClosesOf(bars, AM_START, NIL))]

\* A faulty policy whose middle hour falls back on the pre-market anchor.
BlendedRefMidHourPreMarket(t, feats, fallback) ==
    LET pma == feats.pma_mid  ib == feats.ib_mid  rth == feats.rth_mid
        ref2 == IF t < 600 THEN 2 * Or(ib, Or(pma, Or(rth, fallback)))
                ELSE IF t < 660
                     THEN IF Or(ib, NIL) # NIL /\ Or(rth, NIL) # NIL
                          THEN ib + rth
                          ELSE 2 * Or(ib, Or(rth, Or(pma, fallback)))
                     ELSE 2 * Or(rth, Or(ib, Or(pma, fallback)))
    IN IF ref2 = 0 THEN 2 * fallback ELSE ref2

\* Twice blended_ref(now, feats, fallback): the branch 10:00-11:00 averages
\* two anchors, so the double is an integer.
blended_ref2(t, feats, fallback) ==
    LET pma == feats.pma_mid  ib == feats.ib_mid  rth == feats.rth_mid
        ref2 == IF t < 600 THEN 2 * Or(ib, Or(pma, Or(rth, fallback)))
                ELSE IF t < 660
                     THEN IF Or(ib, NIL) # NIL /\ Or(rth, NIL) # NIL
                          THEN ib + rth
                          ELSE 2 * Or(ib, Or(rth, fallback))
                     ELSE 2 * Or(rth, Or(ib, Or(pma, fallback)))
    IN IF ref2 = 0 THEN 2 * fallback ELSE ref2

\* A faulty fallback that is the last trade price whatever the ticker holds.
FallbackIsLast(t, now, last) == last

\* fallback = sanitize_price(t.open if AM_START <= tnow <= 10:00 and t.open
\*                           else (t.close or last)) or last
FallbackOf(t, now, last) ==
    LET raw == IF AM_START <= now /\ now <= 600 /\ Or(t.open, NIL) # NIL
               THEN t.open ELSE Or(t.close, last)
    IN IF sanitize_price(raw) # NIL THEN sanitize_price(raw) ELSE last


\* -------------------------------------------------------------------- VWV
RECURSIVE SumSeq(_)
SumSeq(q) == IF q = <<>> THEN 0 ELSE Head(q) + SumSeq(Tail(q))

\* A faulty window that takes the new increment at its front.
DequeAppendLeft(q, x) ==
    IF Len(q) >= Window THEN <<x>> \o SubSeq(q, 1, Len(q) - 1) ELSE <<x>> \o q

\* deque(maxlen=window).append
DequeAppend(q, x) == IF Len(q) >= Window THEN Append(Tail(q), x) ELSE Append(q, x)

\* Python floats are binary64: 53 bits of significand, results rounded to the
\* nearest float, ties to the even significand.  The model rounds the same way
\* to MantissaBits bits, integers below 2^MantissaBits being exact, in the
\* three places where rounding decides whether the mean of equal increments is
\* that increment: the product price * dvol, the running total of sum(prev),
\* and the division by n.
RECURSIVE Pow2(_)
Pow2(k) == IF k = 0 THEN 1 ELSE 2 * Pow2(k - 1)

\* a / b to the nearest integer, ties to the even one (a >= 0, b > 0)
RoundHalfEven(a, b) ==
    LET q == a \div b
        r == a % b
    IN IF 2 * r > b \/ (2 * r = b /\ q % 2 = 1) THEN q + 1 ELSE q

RECURSIVE UlpFrom(_, _, _)
\* The spacing of the floats around a / b: the least power of two u, from u0
\* on, with a / b < 2^MantissaBits * u.
UlpFrom(a, b, u0) ==
    IF a < b * Pow2(MantissaBits) * u0 THEN u0 ELSE UlpFrom(a, b, 2 * u0)

\* The float a / b
FlDiv(a, b) == UlpFrom(a, b, 1) * RoundHalfEven(a, b * UlpFrom(a, b, 1))
\* The float of an integer
Fl(x) == FlDiv(x, 1)

RECURSIVE FlSumFrom(_, _)
\* sum(q) from the running total acc: one rounding per addition
FlSumFrom(acc, q) == IF q = <<>> THEN acc ELSE FlSumFrom(Fl(acc + Head(q)), Tail(q))

\* mu = sum(prev) / n
FlMean(prev) == FlDiv(FlSumFrom(0, prev), Len(prev))

\* The z-score of the latest increment against the earlier ones, in tenths and
\* rounded toward 0: with d = latest - mu and Q = sum (x - mu)^2 over the n
\* earlier ones, z = d / sqrt(Q / (n - 1)); from mu on the arithmetic is exact.
\* "sd > 1e-9" is sd # 0: increments are counted in units of which floats near
\* them are whole numbers.  Values beyond +-6 are returned as +-6.1 (VWVUpdate
\* clamps them).
ZScore10(buf) ==
    IF Len(buf) <= 1 THEN 0
    ELSE LET latest == buf[Len(buf)]
             prev == SubSeq(buf, 1, Len(buf) - 1)
             n == Len(prev)
             mu == FlMean(prev)
             d == latest - mu
             Q == SumSeq([i \in 1..n |-> (prev[i] - mu) * (prev[i] - mu)])
             D == 100 * d * d * (n - 1)
             mag == IF 3721 * Q <= D THEN 61
                    ELSE CHOOSE k \in 0..60 : k * k * Q <= D /\ (k + 1) * (k + 1) * Q > D
         IN IF n <= 1 \/ Q = 0 THEN 0
            ELSE IF d < 0 THEN -mag ELSE mag

\* A faulty update that takes the first volume it sees as an increment from 0.
VWVUpdateSeeds(st, last_price, total_volume) ==
    IF last_price = NIL \/ last_price = 0 \/ total_volume = NIL
    THEN [st |-> st, z10 |-> 0]
    ELSE LET seen == IF st.last_total_vol = NIL THEN 0 ELSE st.last_total_vol
             grow == /\ seen # NAN /\ total_volume # NAN
                     /\ total_volume > seen
             dvol == total_volume - seen
             buf == IF grow THEN DequeAppend(st.dv, Fl(last_price * Max(0, dvol))) ELSE st.dv
             z == IF grow THEN ZScore10(buf) ELSE 0
         IN [st |-> [dv |-> buf, last_total_vol |-> total_volume],
             z10 |-> Max(-60, Min(60, z))]

\* VWVState.update(last_price, total_volume): the new state and z (tenths).
\* A volume of NaN (what a ticker holds before the first volume tick) compares
\* False with everything.
VWVUpdate(st, last_price, total_volume) ==
    IF last_price = NIL \/ last_price = 0 \/ total_volume = NIL
    THEN [st |-> st, z10 |-> 0]
    ELSE LET grow == /\ st.last_total_vol # NIL
                     /\ st.last_total_vol # NAN /\ total_volume # NAN
                     /\ total_volume > st.last_total_vol
             dvol == total_volume - st.last_total_vol
             buf == IF grow THEN DequeAppend(st.dv, Fl(last_price * Max(0, dvol))) ELSE st.dv
             z == IF grow THEN ZScore10(buf) ELSE 0
         IN [st |-> [dv |-> buf, last_total_vol |-> total_volume],
             z10 |-> Max(-60, Min(60, z))]

FreshVWV == [dv |-> <<>>, last_total_vol |-> NIL]

\* ----------------------------------------------------------------- ladder
\* BUY_LADDER_MULTS and SELL_LADDER_MULTS, times 4; BUY_RUNG_CLIP_MULTS, times 10
BUY_LADDER_MULTS4 == <<3, 4, 5>>
SELL_LADDER_MULTS4 == <<3, 4, 5>>
BUY_RUNG_CLIP_MULTS10 == <<10, 16, 23>>

\* A faulty table that widens no class.
SpreadClassMultsNone(class) == 1

SPREAD_CLASS_MULTS(class) == IF class = "safe" THEN 3 ELSE 5

\* zc = max(-2, min(2, z)); buy_mult = max(0.25, 1 + 0.25*zc), times 40;
\* sell_mult = 1 - 0.15*zc, times 1000
Zc10(z10) == Max(-20, Min(20, z10))
BuyMult40(z10) == Max(10, 40 + Zc10(z10))
SellMult1000(z10) == 1000 - 15 * Zc10(z10)

\* buy_levels[i] = ref * (1 - buy_pct*m/100), times 320000, with buy_pct =
\* max(0.1, buy) * class multiplier * buy_mult: buy_pct*m/100 =
\* buy10*scm*bm40*m4 / 160000
BuyLevel320000(ref2, r, z10, m4) ==
    ref2 * (160000 - Max(1, r.buy10) * SPREAD_CLASS_MULTS(r.class) * BuyMult40(z10) * m4)

\* last <= lvl
BuyLevelHit(last, ref2, r, z10, m4) == last * 320000 <= BuyLevel320000(ref2, r, z10, m4)

\* A faulty trigger that fires while the price is at or under a sell level.
SellLevelHitUnder(last, ref2, r, z10, m4) ==
    last * 2 * 4000000
        <= ref2 * (4000000 + Max(1, r.sell10) * SPREAD_CLASS_MULTS(r.class) * SellMult1000(z10) * m4)

\* last >= ref * (1 + sell_pct*m/100): sell_pct*m/100 = sell10*scm*sm1000*m4 / 4000000
SellLevelHit(last, ref2, r, z10, m4) ==
    last * 2 * 4000000
        >= ref2 * (4000000 + Max(1, r.sell10) * SPREAD_CLASS_MULTS(r.class) * SellMult1000(z10) * m4)

\* sell_levels[i] = ref * (1 + sell_pct*m/100), times 8000000
SellLevel8000000(ref2, r, z10, m4) ==
    ref2 * (4000000 + Max(1, r.sell10) * SPREAD_CLASS_MULTS(r.class) * SellMult1000(z10) * m4)

CeilDiv(a, b) == (a + b - 1) \div b

\* A faulty clip that leaves out the clamp to [MIN_CLIP_USD, MAX_CLIP_USD].
ClipUnclamped(klass, n, cents) ==
    LET frac100 == IF klass = "risky" THEN 60 ELSE IF klass = "safe" THEN 40 ELSE 50
        risk100 == IF klass = "risky" THEN 115 ELSE 85
        px == Max(100, cents)
        pwn == IF px <= 2500 THEN 2 ELSE IF px >= 10000 THEN 1 ELSE 50
        pwd == IF px <= 2500 THEN 100 ELSE IF px >= 10000 THEN 200 ELSE px
    IN (1005 * frac100 * risk100 * pwn) \div ((IF n = 0 THEN 1 ELSE n) * 12 * pwd)

\* The body of dynamic_clip_usd for a symbol of class klass among n targets of
\* that class and a last price in cents; the clip in whole dollars.
class_clip(klass, n, cents) ==
    LET frac100 == IF klass = "risky" THEN 60 ELSE IF klass = "safe" THEN 40 ELSE 50
        n_class == IF n = 0 THEN 1 ELSE n
        risk100 == IF klass = "risky" THEN 115 ELSE 85
        px == Max(100, cents)
        \* price_weight = max(0.5, min(2.0, 50 / px)) as 100 * pwn / pwd
        pwn == IF px <= 2500 THEN 2 ELSE IF px >= 10000 THEN 1 ELSE 50
        pwd == IF px <= 2500 THEN 100 ELSE IF px >= 10000 THEN 200 ELSE px
        \* 150000 * 0.67 = 100500; base_clip = 100500 * frac / n_class / 12
        clip == (1005 * frac100 * risk100 * pwn) \div (n_class * 12 * pwd)
    IN Max(100, Min(6000, clip))

\* dynamic_clip_usd(sym, last_price, targets), whole dollars
dynamic_clip_usd(sym, last_price) ==
    class_clip(rec(sym).class,
               Cardinality({i \in 1..Len(targets) : rec(targets[i]).class = rec(sym).class}),
               100 * last_price)

\* clip_usd: the per-symbol override when present and positive
ClipUSD(sym, last) ==
    IF rec(sym).clip # NIL /\ rec(sym).clip > 0 THEN rec(sym).clip
    ELSE dynamic_clip_usd(sym, last)

\* A faulty sizing that truncates where the code takes the ceiling and does
\* not floor the rung at one share.
RungSharesTruncated(mults10, cents, mills) ==
    [i \in 1..Len(mults10) |-> (cents * mults10[i]) \div Max(10, mills)]

\* shares = max(1, int(math.ceil(clip_usd * mult / max(0.01, last)))) for each
\* mult, with the clip in cents, the last price in tenths of a cent and the
\* multipliers times 10
rung_shares(mults10, cents, mills) ==
    [i \in 1..Len(mults10) |-> Max(1, CeilDiv(cents * mults10[i], Max(10, mills)))]

\* total += shares; cumulative_shares.append(total)
running_total(shares) == [i \in 1..Len(shares) |-> SumSeq(SubSeq(shares, 1, i))]

\* ladder_shares[i] = max(1, ceil(clip * mult / max(0.01, last)))
ladder_shares(clip, last) == rung_shares(BUY_RUNG_CLIP_MULTS10, 100 * clip, 1000 * last)

cumulative_shares(clip, last) == running_total(ladder_shares(clip, last))

\* active_layers: idx + 1 of the last threshold the position reaches
active_layers(cum, p) ==
    LET hit == {i \in 1..Len(cum) : p >= cum[i]}
    IN IF hit = {} THEN 0 ELSE CHOOSE i \in hit : \A j \in hit : j <= i

desired_buy_layers(last, ref2, r, z10, n) ==
    Min(Cardinality({i \in 1..Len(BUY_LADDER_MULTS4) :
                        BuyLevelHit(last, ref2, r, z10, BUY_LADDER_MULTS4[i])}), n)

levels_hit(last, ref2, r, z10) ==
    Cardinality({i \in 1..Len(SELL_LADDER_MULTS4) :
                    SellLevelHit(last, ref2, r, z10, SELL_LADDER_MULTS4[i])})


\* ----------------------------------------------------------------- orders
\* What place_ioc_buy / place_ioc_sell can return for qty shares quoted at
\* last: (None, 0), or (average fill price, filled) with 1 <= filled <= qty.
Fills(qty, last) ==
    {[filled |-> 0, px |-> NIL]} \cup {[filled |-> f, px |-> last] : f \in 1..qty}

\* The limit price of an IOC order.  Candidate prices are in units of 0.0001
\* dollar and lmt in units of 0.0000001 dollar, which holds base * 1.004 and
\* base * 1.02 exactly.
\* The nominal price 0.01, in either unit.
CENT4 == 100
CENT7 == 100000

\* ref_prices: the usable candidates in the order given, or [0.01].
ref_prices(cands) ==
    LET ok == SelectSeq([i \in 1..Len(cands) |-> sanitize_price(cands[i])],
                        LAMBDA p : p # NIL)
    IN IF ok = <<>> THEN <<CENT4>> ELSE ok

SeqMax(q) == CHOOSE x \in Range(q) : \A y \in Range(q) : y <= x
SeqMin(q) == CHOOSE x \in Range(q) : \A y \in Range(q) : x <= y

\* bump = 0.004 if urgency != 'urgent' else 0.02, in thousandths
Bump1000(urgency) == IF urgency # "urgent" THEN 4 ELSE 20

\* lmt of place_ioc_buy and of place_ioc_sell
BuyLmt7(bid, ask, last, urgency) ==
    Max(CENT7, SeqMax(ref_prices(<<last, ask, bid>>)) * (1000 + Bump1000(urgency)))
SellLmt7(bid, last, urgency) ==
    Max(CENT7, SeqMin(ref_prices(<<last, bid>>)) * (1000 - Bump1000(urgency)))

\* round(lmt, 4), to units of 0.0001 dollar (no lmt of the model is half-way
\* between two of them).
Round4(lmt7) == (lmt7 + 500) \div 1000

\* The state of one symbol while it is evaluated: its live state, the orders
\* submitted so far, and whether an exception has left the evaluation (and at
\* which call).
SymState(sym) ==
    [pos |-> pos[sym], avg |-> avg[sym], rpnl |-> rpnls[sym], hi |-> trail_hi[sym],
     since_buy |-> since_buy[sym], orders |-> <<>>, raised |-> FALSE, at |-> "-"]

SnapOf(s) == [pos |-> s.pos, avg |-> s.avg, rpnl |-> s.rpnl, hi |-> s.hi]

Logged(s0, s1, sym, side, qty, urgency, tag, fill) ==
    [s1 EXCEPT !.orders = Append(@,
        [sym |-> sym, side |-> side, qty |-> qty, urgency |-> urgency, tag |-> tag,
         filled |-> fill.filled, px |-> fill.px,
         before |-> SnapOf(s0), after |-> SnapOf(s1)])]

Raised(s, at) == [s EXCEPT !.raised = TRUE, !.at = at]

\* A faulty entry that books the first share whether or not it filled.
AfterBuyAssumed(s, fill) ==
    [s EXCEPT !.since_buy = 0, !.pos = s.pos + Max(1, fill.filled)]

\* A faulty exit that keeps the average cost of a closed position.
AfterSellKeepsAvg(s, fill) ==
    IF fill.filled > 0 /\ fill.px # NIL
    THEN [s EXCEPT !.rpnl = s.rpnl + (fill.px - s.avg) * fill.filled,
                   !.pos = Max(0, s.pos - fill.filled)]
    ELSE s

\* After px, filled = place_ioc_buy(...) of the ladder entry
AfterBuy(s, fill) ==
    LET s1 == [s EXCEPT !.since_buy = 0]
        newpos == Max(0, s.pos) + fill.filled
    IN IF fill.filled > 0 /\ fill.px # NIL
       THEN [s1 EXCEPT
                !.avg = IF s.pos > 0
                        THEN (s.avg * s.pos + fill.px * fill.filled) \div newpos
                        ELSE fill.px,
                !.pos = Max(0, newpos),
                !.hi = Max(s.hi, fill.px)]
       ELSE s1

\* A faulty exit that clears the average cost before it books the gain.
AfterSellClearsFirst(s, fill) ==
    LET left == Max(0, s.pos - fill.filled)
        cost == IF left = 0 THEN 0 ELSE s.avg
    IN IF fill.filled > 0 /\ fill.px # NIL
       THEN [s EXCEPT
                !.rpnl = s.rpnl + (fill.px - cost) * fill.filled,
                !.pos = left,
                !.avg = cost,
                !.hi = IF left = 0 THEN 0 ELSE s.hi]
       ELSE s

\* After px, filled = place_ioc_sell(...) of a trim or a stop
AfterSell(s, fill) ==
    LET left == Max(0, s.pos - fill.filled)
    IN IF fill.filled > 0 /\ fill.px # NIL
       THEN [s EXCEPT
                !.rpnl = s.rpnl + (fill.px - s.avg) * fill.filled,
                !.pos = left,
                !.avg = IF left = 0 THEN 0 ELSE s.avg,
                !.hi = IF left = 0 THEN 0 ELSE s.hi]
       ELSE s

\* ib.placeOrder raises on a dropped socket, and may raise on a live one.
BuyOutcomes(s, sym, qty, last) ==
    {Raised(s, "ladder_buy")} \cup
    {Logged(s, AfterBuy(s, f), sym, "BUY", qty, "normal", "ladder_buy", f) :
        f \in IF connected THEN Fills(qty, last) ELSE {}}

SellOutcomes(s, sym, qty, last, urgency, tag) ==
    {Raised(s, tag)} \cup
    {Logged(s, AfterSell(s, f), sym, "SELL", qty, urgency, tag, f) :
        f \in IF connected THEN Fills(qty, last) ELSE {}}

\* A faulty entry that orders the whole target, the shares held included.
EntryWholeTarget(s, sym, last, z10, cum, active, desired) ==
    IF s.since_buy >= BUY_COOLDOWN_SEC /\ z10 >= 0 /\ desired > active
    THEN BuyOutcomes(s, sym, cum[desired], last)
    ELSE {s}

\* ENTRY
Entry(s, sym, last, z10, cum, active, desired) ==
    IF s.since_buy >= BUY_COOLDOWN_SEC /\ z10 >= 0 /\ desired > active
    THEN LET qty == Max(0, cum[desired] - s.pos)
         IN IF qty > 0 THEN BuyOutcomes(s, sym, qty, last) ELSE {s}
    ELSE {s}

\* A faulty trim that sells down from the full ladder, whatever is held.
LadderTrimFromFullLadder(s, sym, last, z10, cum, active, hits) ==
    IF s.pos > 0 /\ z10 <= 0
    THEN LET target_layers_after == Max(0, active - hits)
             target_shares == IF target_layers_after > 0
                              THEN cum[target_layers_after] ELSE 0
             qty == Max(0, cum[Len(cum)] - target_shares)
         IN IF target_layers_after < active /\ qty > 0
            THEN SellOutcomes(s, sym, qty, last, "normal", "ladder_sell")
            ELSE {s}
    ELSE {s}

\* LADDER TRIMS
LadderTrim(s, sym, last, z10, cum, active, hits) ==
    IF s.pos > 0 /\ z10 <= 0
    THEN LET target_layers_after == Max(0, active - hits)
             target_shares == IF target_layers_after > 0
                              THEN cum[target_layers_after] ELSE 0
             qty == Max(0, s.pos - target_shares)
         IN IF target_layers_after < active /\ qty > 0
            THEN SellOutcomes(s, sym, qty, last, "normal", "ladder_sell")
            ELSE {s}
    ELSE {s}

\* BREAKEVEN TRIM: upnl_bp = (last/avg - 1) * 10000 >= BREAKEVEN_MIN_UPNL_BP
\* and last >= avg; qty = max(1, int(pos * BREAKEVEN_TRIM_FRACTION))
BreakevenTrim(s, sym, last, z10) ==
    IF s.pos > 0 /\ s.avg > 0 /\ z10 <= 0
       /\ (last - s.avg) * 10000 >= BREAKEVEN_MIN_UPNL_BP * s.avg /\ last >= s.avg
    THEN SellOutcomes(s, sym, Max(1, s.pos \div BREAKEVEN_TRIM_DIV), last, "normal",
                      "breakeven_trim")
    ELSE {s}

\* HARD STOP: last <= avg * (1 - HARD_STOP_PCT / 100)
HardStop(s, sym, last) ==
    IF s.pos > 0 /\ s.avg > 0 /\ last * 100 <= s.avg * (100 - HARD_STOP_PCT)
    THEN SellOutcomes(s, sym, s.pos, last, "urgent", "live_stop")
    ELSE {s}

\* TRAIL: last <= trail_hi * (1 - TRAIL_PCT / 100)
Trail(s, sym, last) ==
    IF s.pos > 0
    THEN LET s1 == [s EXCEPT !.hi = Max(s.hi, last)]
         IN IF last * 1000 <= s1.hi * (1000 - TRAIL_PCT10) /\ last > 0
            THEN SellOutcomes(s1, sym, s1.pos, last, "urgent", "live_trail")
            ELSE {s1}
    ELSE {s}

\* widen_levels_for_display reads the global ANCHOR_DISTANCE_MULT once it
\* has a reference, a class multiplier over 1, a ladder and its anchor rung:
\* unbound, the read raises NameError.
WidenRaises(ref2, spread_mult, nlevels, anchor_idx) ==
    /\ ~(spread_mult <= 1 \/ nlevels = 0 \/ anchor_idx < 0 \/ anchor_idx >= nlevels)
    /\ anchor_mult = NIL

\* A faulty evaluation that runs the trailing stop before the hard stop.
TradeTrailFirst(sym, s0, last, ref2, z10) ==
    LET cum == cumulative_shares(ClipUSD(sym, last), last)
        active == active_layers(cum, s0.pos)
        desired == desired_buy_layers(last, ref2, rec(sym), z10, Len(cum))
        hits == levels_hit(last, ref2, rec(sym), z10)
        S1 == Entry(s0, sym, last, z10, cum, active, desired)
        S2 == UNION {IF s.raised THEN {s}
                     ELSE LadderTrim(s, sym, last, z10, cum, active, hits) : s \in S1}
        S3 == UNION {IF s.raised THEN {s} ELSE BreakevenTrim(s, sym, last, z10) : s \in S2}
        S4 == UNION {IF s.raised THEN {s} ELSE Trail(s, sym, last) : s \in S3}
    IN UNION {IF s.raised THEN {s} ELSE HardStop(s, sym, last) : s \in S4}

\* The entry/exit part of one symbol's evaluation, from the ladder sizing plan
\* to the trailing stop: every way it can end.  A step is skipped once an
\* exception has left the evaluation.
Trade(sym, s0, last, ref2, z10) ==
    LET cum == cumulative_shares(ClipUSD(sym, last), last)
        active == active_layers(cum, s0.pos)
        desired == desired_buy_layers(last, ref2, rec(sym), z10, Len(cum))
        hits == levels_hit(last, ref2, rec(sym), z10)
        S1 == Entry(s0, sym, last, z10, cum, active, desired)
        S2 == UNION {IF s.raised THEN {s}
                     ELSE LadderTrim(s, sym, last, z10, cum, active, hits) : s \in S1}
        S3 == UNION {IF s.raised THEN {s} ELSE BreakevenTrim(s, sym, last, z10) : s \in S2}
        S4 == UNION {IF s.raised THEN {s} ELSE HardStop(s, sym, last) : s \in S3}
    IN UNION {IF s.raised THEN {s} ELSE Trail(s, sym, last) : s \in S4}

\* One symbol's turn in "for sym, rec in targets.items()" on ticker t (NIL:
\* ib.ticker returned None): what it logged, the symbol's state and its
\* volatility state afterwards, and the last price, the doubled reference and
\* the z-score (tenths) it worked with.
Evaluate(sym, t, quoted) ==
    LET s0 == SymState(sym)
        last == LastOf(t)
        limit == spr_lim(rec(sym).class)
        ref2 == blended_ref2(tnow, feats_map(sym), FallbackOf(t, tnow, last))
        u == VWVUpdate(vwv[sym], last, t.volume)
        scm == SPREAD_CLASS_MULTS(rec(sym).class)
        none == [last |-> NIL, ref2 |-> NIL, z10 |-> 0]
        inp == [last |-> last, ref2 |-> ref2, z10 |-> u.z10]
    IN IF ~quoted THEN {[kind |-> "no_ticker", s |-> s0, vwv |-> vwv[sym], inp |-> none]}
       ELSE IF last = NIL
            THEN {[kind |-> "no_price", s |-> s0, vwv |-> vwv[sym], inp |-> none]}
       ELSE IF SpreadOver(sanitize_price(t.bid), sanitize_price(t.ask), limit)
            THEN {[kind |-> "spread", s |-> s0, vwv |-> vwv[sym],
                   inp |-> [none EXCEPT !.last = last]]}
       ELSE IF WidenRaises(ref2, scm, Len(BUY_LADDER_MULTS4), 1)
            THEN {[kind |-> "error", s |-> Raised(s0, "widen_levels_for_display"),
                   vwv |-> u.st, inp |-> inp]}
       ELSE {[kind |-> IF s.raised THEN "error" ELSE "evaluated",
              s |-> s, vwv |-> u.st, inp |-> inp] : s \in Trade(sym, s0, last, ref2, u.z10)}


\* -------------------------------------------------------------- dashboard
\* Handler threads of the ThreadingHTTPServer that serve one POST /adjust each.
MaxThreads == 2
Threads == 1..MaxThreads

\* A dict with no key, and a file that does not exist.
EmptyDict == [k \in {} |-> 0]
NoFile == [exists |-> FALSE, data |-> EmptyDict]

\* A thread that serves no request.
IdleHandler(at) ==
    [pc |-> at, symbol |-> "-", buy |-> NIL, sell |-> NIL, overrides |-> EmptyDict,
     returned |-> EmptyDict]

\* No dashboard server runs next to run_live.
NoDashboard ==
    /\ overrides_file = NoFile /\ overrides_tmp = NoFile
    /\ overrides_lock = 0
    /\ handlers = [t \in Threads |-> IdleHandler("off")]

\* ---------------------------------------------------------------- actions
Zero == [sym \in AllSymbols |-> 0]

\* defaultdict(float) for last_buy_time: the first cooldown has long elapsed
Elapsed == [sym \in AllSymbols |-> BUY_COOLDOWN_SEC]

InitCommon ==
    /\ pc = "connect"
    /\ connected = FALSE
    /\ tnow = NIL
    /\ was_in_session = "None" /\ was_in_rth = "None"
    /\ pos = Zero /\ avg = Zero /\ rpnls = Zero /\ trail_hi = Zero
    /\ since_buy = Elapsed
    /\ vwv = [sym \in AllSymbols |-> FreshVWV]
    /\ broker_pos = <<>> /\ query_ok = FALSE
    /\ idx = 1 /\ fills = 0
    /\ orders = <<>> /\ events = <<>>
    /\ NoDashboard

\* dronebot.py as it is: nothing binds ANCHOR_DISTANCE_MULT.
Init ==
    /\ InitCommon
    /\ anchor_mult = NIL
    /\ targets = <<"A", "B">>

\* ib = IB(); ib.connect(...): returns or raises
Connect ==
    /\ pc = "connect"
    /\ \E up \in BOOLEAN :
          /\ connected' = up
          /\ pc' = IF up THEN "setup" ELSE "except"
    /\ orders' = <<>> /\ events' = <<>>
    /\ UNCHANGED <<anchor_mult, targets, tnow, was_in_session, was_in_rth, pos, avg,
                   rpnls, trail_hi, since_buy, vwv, broker_pos, query_ok, idx, fills>>
    /\ UNCHANGED ovars

\* Targets, contracts, market data, anchors, then the live state: every
\* per-symbol map is created anew.  A broker call of the setup may raise.
Setup ==
    /\ pc = "setup"
    /\ \/ /\ pc' = "tick"
          /\ pos' = Zero /\ avg' = Zero /\ rpnls' = Zero /\ trail_hi' = Zero
          /\ since_buy' = Elapsed
          /\ vwv' = [sym \in AllSymbols |-> FreshVWV]
          /\ was_in_session' = "None" /\ was_in_rth' = "None"
          /\ fills' = 0
       \/ /\ pc' = "except"
          /\ UNCHANGED <<pos, avg, rpnls, trail_hi, since_buy, vwv, was_in_session,
                         was_in_rth, fills>>
    /\ orders' = <<>> /\ events' = <<>>
    /\ UNCHANGED <<connected, anchor_mult, targets, tnow, broker_pos, query_ok, idx>>
    /\ UNCHANGED ovars

\* The socket drops between two ticks or while a tick evaluates its symbols;
\* on_disconnect only logs and disconnects.
Disconnect ==
    /\ connected /\ pc \in {"tick", "eval"}
    /\ connected' = FALSE
    /\ UNCHANGED <<pc, anchor_mult, targets, tnow, was_in_session, was_in_rth, pos,
                   avg, rpnls, trail_hi, since_buy, vwv, broker_pos, query_ok, idx,
                   fills, orders, events>>
    /\ UNCHANGED ovars

\* Times of day a tick can see after one that saw t: later the same day, or
\* the first of the next day.
NextTimes(t) ==
    {x \in Times : t = NIL \/ x >= t \/ \A y \in Times : x <= y}

Flag(b) == IF b THEN "True" ELSE "False"

\* Top of the inner loop: the connectivity check, the sleep, the clock and the
\* edge-triggered phase lines.
TickStart ==
    /\ pc = "tick"
    /\ IF ~connected
       THEN /\ pc' = "except"
            /\ events' = <<[kind |-> "lost_connection", sym |-> "-"]>>
            /\ UNCHANGED <<tnow, was_in_session, was_in_rth, since_buy>>
       ELSE \E t \in NextTimes(tnow), d \in TickLengths :
               /\ pc' = "sync"
               /\ tnow' = t
               /\ was_in_session' = Flag(InSession(t))
               /\ was_in_rth' = Flag(InRth(t))
               /\ since_buy' = [sym \in AllSymbols |->
                                   Min(BUY_COOLDOWN_SEC, since_buy[sym] + d)]
               /\ events' =
                    (IF was_in_session # Flag(InSession(t))
                     THEN <<[kind |-> "session_line", sym |-> "-"]>> ELSE <<>>)
                    \o (IF was_in_rth # Flag(InRth(t))
                        THEN <<[kind |-> "rth_line", sym |-> "-"]>> ELSE <<>>)
    /\ orders' = <<>>
    /\ UNCHANGED <<connected, anchor_mult, targets, pos, avg, rpnls, trail_hi, vwv,
                   broker_pos, query_ok, idx, fills>>
    /\ UNCHANGED ovars

\* SYNC LIVE POSITIONS FROM IB.  read_broker_positions returns {} when the
\* query raises, as it does on a dropped socket.
Sync ==
    /\ pc = "sync"
    /\ \E ok \in {b \in BOOLEAN : connected \/ ~b} :
       \E rep \in (IF ok THEN Reports ELSE {<<>>}) :
       \E st \in SyncFrom(1, rep, Live) :
          /\ query_ok' = ok
          /\ broker_pos' = rep
          /\ pos' = st.pos /\ avg' = st.avg /\ since_buy' = st.since_buy
          /\ orders' = st.orders /\ events' = st.events
    /\ pc' = "gate"
    /\ UNCHANGED <<connected, anchor_mult, targets, tnow, was_in_session, was_in_rth,
                   rpnls, trail_hi, vwv, idx, fills>>
    /\ UNCHANGED ovars

\* "if not in_rth: continue"
Gate ==
    /\ pc = "gate"
    /\ pc' = IF InRth(tnow) THEN "eval" ELSE "tick"
    /\ idx' = 1
    /\ broker_pos' = <<>> /\ query_ok' = FALSE
    /\ orders' = <<>> /\ events' = <<>>
    /\ UNCHANGED <<connected, anchor_mult, targets, tnow, was_in_session, was_in_rth,
                   pos, avg, rpnls, trail_hi, since_buy, vwv, fills>>
    /\ UNCHANGED ovars

\* Orders of a log that filled
NFilled(log) == Cardinality({i \in 1..Len(log) : log[i].filled > 0})

\* A faulty loop whose per-symbol exception reaches the outer handler.
NextPcNoIsolation(kind, i) ==
    IF kind = "error" THEN "except"
    ELSE IF i = Len(targets) THEN "tick" ELSE "eval"

\* Where run_live goes after the turn of targets[i] ended as kind: the
\* except clause of the loop body swallows the exception, so the loop goes on
\* to the next symbol and, after the last, to the next tick.
NextPc(kind, i) == IF i = Len(targets) THEN "tick" ELSE "eval"

\* The loop body for targets[idx], under its try/except; after the last
\* symbol the tick ends.
EvalSymbol ==
    /\ pc = "eval"
    /\ LET sym == targets[idx] IN
       \E quoted \in BOOLEAN :
       \E t \in (IF quoted THEN Quotes(sym) ELSE {NoPrice}) :
       \E o \in Evaluate(sym, t, quoted) :
          /\ fills + NFilled(o.s.orders) <= MaxFills
          /\ Abs(o.s.rpnl) <= MaxPnl
          /\ fills' = fills + NFilled(o.s.orders)
          /\ pos' = [pos EXCEPT ![sym] = o.s.pos]
          /\ avg' = [avg EXCEPT ![sym] = o.s.avg]
          /\ rpnls' = [rpnls EXCEPT ![sym] = o.s.rpnl]
          /\ trail_hi' = [trail_hi EXCEPT ![sym] = o.s.hi]
          /\ since_buy' = [since_buy EXCEPT ![sym] = o.s.since_buy]
          /\ vwv' = [vwv EXCEPT ![sym] = o.vwv]
          /\ orders' = o.s.orders
          /\ events' = <<[kind |-> o.kind, sym |-> sym, inp |-> o.inp,
                           bid |-> sanitize_price(t.bid), ask |-> sanitize_price(t.ask),
                           before |-> SymState(sym), at |-> o.s.at,
                           changed |-> <<SnapOf(o.s), o.s.since_buy, o.vwv>>
                                       # <<SnapOf(SymState(sym)), since_buy[sym],
                                           vwv[sym]>>]>>
          /\ pc' = NextPc(o.kind, idx)
    /\ idx' = IF idx = Len(targets) THEN 1 ELSE idx + 1
    /\ UNCHANGED <<connected, anchor_mult, targets, tnow, was_in_session, was_in_rth,
                   broker_pos, query_ok>>
    /\ UNCHANGED ovars

\* A faulty handler that lets run_live return.
ExceptReturns ==
    /\ pc = "except"
    /\ pc' = "returned"
    /\ orders' = <<>> /\ events' = <<[kind |-> "top_level_error", sym |-> "-"]>>
    /\ UNCHANGED <<connected, anchor_mult, targets, tnow, was_in_session, was_in_rth,
                   pos, avg, rpnls, trail_hi, since_buy, vwv, broker_pos, query_ok, idx, fills>>
    /\ UNCHANGED ovars

\* except Exception: log_error("top-level error")
Except ==
    /\ pc = "except"
    /\ pc' = "finally"
    /\ orders' = <<>> /\ events' = <<[kind |-> "top_level_error", sym |-> "-"]>>
    /\ UNCHANGED <<connected, anchor_mult, targets, tnow, was_in_session, was_in_rth,
                   pos, avg, rpnls, trail_hi, since_buy, vwv, broker_pos, query_ok, idx, fills>>
    /\ UNCHANGED ovars

\* finally: ib.disconnect(); time.sleep(3); then the outer loop starts over
Finally ==
    /\ pc = "finally"
    /\ connected' = FALSE
    /\ pc' = "connect"
    /\ orders' = <<>> /\ events' = <<[kind |-> "backoff", sym |-> "-"]>>
    /\ UNCHANGED <<anchor_mult, targets, tnow, was_in_session, was_in_rth, pos, avg,
                   rpnls, trail_hi, since_buy, vwv, broker_pos, query_ok, idx, fills>>
    /\ UNCHANGED ovars

Next ==
    \/ Connect \/ Setup \/ Disconnect \/ TickStart \/ Sync \/ Gate \/ EvalSymbol
    \/ Except \/ Finally

Spec == Init /\ [][Next]_vars

\* The handler and the reconnect are straight-line code around a 3 s sleep and
\* a connect with a 10 s timeout: once reached, each completes.
SpecFair ==
    Spec /\ WF_vars(Except) /\ WF_vars(Finally) /\ WF_vars(Connect)

\* The same program with ANCHOR_DISTANCE_MULT bound to 2.0, the value the
\* docstring of widen_levels_for_display describes ("double the base
\* distance"), and one target: the ladder and risk code that the NameError
\* keeps dronebot.py from reaching.
InitBound ==
    /\ InitCommon
    /\ anchor_mult = 2
    /\ targets = <<"A">>

\* Both programs: what holds here holds for dronebot.py as it is and for
\* dronebot.py with the global bound.
SpecAny == (Init \/ InitBound) /\ [][Next]_vars


\* ------------------------------------------- one evaluation, on any inputs
\* The entry/exit part of an evaluation (lines 639-745) is a function of the
\* symbol's live state, the last price, the reference and z.  SpecSteps applies
\* it once to every combination of the values below, which the loop produces
\* over a longer run than Spec follows: positions up to MaxPos, a z of either
\* sign, and prices on either side of every ladder level, stop and trim.

\* Largest position held when an evaluation starts.
MaxPos == 8

\* Average costs of a held position: what the broker reports (0 when it has
\* none, "p.avgCost or 0.0") or an earlier fill price.
TradeAvgs == {0, 88, 108}
\* High-water marks: 0, or a last price seen earlier.
TradeHighs == {0, 100, 111}
\* <<last, 2 * reference>>: against a reference of 100 the buy levels at z = 0
\* are 92.5, 90, 87.5 and the sell levels 105.625, 107.5, 109.375; against a
\* reference of 40 a clip of 50 USD buys 2 shares at the first rung.
TradeQuotes == {<<p, 200>> : p \in {84, 88, 92, 100, 106, 108, 111}} \cup {<<44, 80>>}
\* z-scores, tenths
Zs == {-10, 0, 10}

Only(x) == [sym \in AllSymbols |-> IF sym = "A" THEN x ELSE 0]

\* run_live between two evaluations, ANCHOR_DISTANCE_MULT bound, one target.
InitStep ==
    /\ connected = TRUE
    /\ anchor_mult = 2 /\ targets = <<"A">>
    /\ tnow = AM_START
    /\ was_in_session = "True" /\ was_in_rth = "True"
    /\ broker_pos = <<>> /\ query_ok = FALSE
    /\ idx = 1 /\ fills = 0
    /\ orders = <<>>
    /\ NoDashboard

InitTrade ==
    /\ InitStep
    /\ pc = "trade"
    /\ rpnls = Zero
    /\ vwv = [sym \in AllSymbols |-> FreshVWV]
    /\ \E p \in 0..MaxPos, a \in TradeAvgs, h \in TradeHighs :
          /\ pos = Only(p)
          /\ avg = Only(IF p = 0 THEN 0 ELSE a)
          /\ trail_hi = Only(h)
    /\ \E c \in {0, BUY_COOLDOWN_SEC} : since_buy = [Elapsed EXCEPT !["A"] = c]
    /\ \E q \in TradeQuotes, z \in Zs :
          events = <<[kind |-> "quote", sym |-> "A",
                      inp |-> [last |-> q[1], ref2 |-> q[2], z10 |-> z]]>>

\* Lines 639-745 for the symbol and the inputs of events[1].
TradeStep ==
    /\ pc = "trade"
    /\ LET sym == events[1].sym
           inp == events[1].inp
       IN \E s \in Trade(sym, SymState(sym), inp.last, inp.ref2, inp.z10) :
             /\ pos' = [pos EXCEPT ![sym] = s.pos]
             /\ avg' = [avg EXCEPT ![sym] = s.avg]
             /\ rpnls' = [rpnls EXCEPT ![sym] = s.rpnl]
             /\ trail_hi' = [trail_hi EXCEPT ![sym] = s.hi]
             /\ since_buy' = [since_buy EXCEPT ![sym] = s.since_buy]
             /\ orders' = s.orders
             /\ events' = <<[kind |-> IF s.raised THEN "error" ELSE "evaluated",
                              sym |-> sym, inp |-> inp,
                              before |-> SymState(sym), at |-> s.at,
                              changed |-> <<SnapOf(s), s.since_buy>>
                                          # <<SnapOf(SymState(sym)), since_buy[sym]>>]>>
    /\ pc' = "traded"
    /\ UNCHANGED <<connected, anchor_mult, targets, tnow, was_in_session, was_in_rth,
                   vwv, broker_pos, query_ok, idx, fills>>
    /\ UNCHANGED ovars

\* The worked example of the entry: prices in tenths of a dollar, a reference
\* of 100.0, z = 0, and last prices under no buy level, under the first
\* only, under two and under all three.
ExamplePrices == {974, 924, 899, 874}

InitEntry ==
    /\ InitStep
    /\ pc = "entry"
    /\ rpnls = Zero /\ avg = Zero /\ trail_hi = Zero
    /\ vwv = [sym \in AllSymbols |-> FreshVWV]
    /\ \E p \in {0, 1} : pos = Only(p)
    /\ \E c \in {0, BUY_COOLDOWN_SEC} : since_buy = [Elapsed EXCEPT !["A"] = c]
    /\ \E l \in ExamplePrices :
          events = <<[kind |-> "quote", sym |-> "A",
                      inp |-> [last |-> l, ref2 |-> 2000, z10 |-> 0]]>>

\* Lines 608-618 and 639-685 on prices in tenths of a dollar (the clip, in
\* dollars, is converted): the buy levels, the sizing plan and the entry.
EntryStep ==
    /\ pc = "entry"
    /\ LET sym == events[1].sym
           inp == events[1].inp
           cum == cumulative_shares(10 * ClipUSD(sym, inp.last \div 10), inp.last)
           active == active_layers(cum, pos[sym])
           desired == desired_buy_layers(inp.last, inp.ref2, rec(sym), inp.z10, Len(cum))
       IN \E s \in Entry(SymState(sym), sym, inp.last, inp.z10, cum, active, desired) :
             /\ pos' = [pos EXCEPT ![sym] = s.pos]
             /\ avg' = [avg EXCEPT ![sym] = s.avg]
             /\ trail_hi' = [trail_hi EXCEPT ![sym] = s.hi]
             /\ since_buy' = [since_buy EXCEPT ![sym] = s.since_buy]
             /\ orders' = s.orders
             /\ events' = <<[kind |-> "entry", sym |-> sym, inp |-> inp,
                              before |-> SymState(sym), at |-> s.at,
                              buy_levels |->
                                  [i \in 1..Len(BUY_LADDER_MULTS4) |->
                                      BuyLevel320000(inp.ref2, rec(sym), inp.z10,
                                                     BUY_LADDER_MULTS4[i])],
                              cum |-> cum]>>
    /\ pc' = "entered"
    /\ UNCHANGED <<connected, anchor_mult, targets, tnow, was_in_session, was_in_rth,
                   rpnls, vwv, broker_pos, query_ok, idx, fills>>
    /\ UNCHANGED ovars

\* Prices a quote field can hold, in units of 0.0001 dollar: None, NaN, an
\* infinity, 0, a negative number, 0.005, 0.01, 0.0101, 99, 100 and 101.
IocPrices == {NIL, NAN, INF, 0, -10000, 50, CENT4, 101, 990000, 1000000, 1010000}
Urgencies == {"normal", "urgent", "patient"}

\* A call of place_ioc_buy or place_ioc_sell about to be made.
InitIoc ==
    /\ InitStep
    /\ pc = "ioc"
    /\ pos = Zero /\ avg = Zero /\ rpnls = Zero /\ trail_hi = Zero
    /\ since_buy = Elapsed
    /\ vwv = [sym \in AllSymbols |-> FreshVWV]
    /\ \E side \in {"BUY", "SELL"}, qty \in {0, 1}, u \in Urgencies,
          l \in IocPrices, b \in IocPrices, a \in IocPrices :
          /\ side = "SELL" => a = NIL
          /\ events = <<[kind |-> "call", sym |-> "A", side |-> side, qty |-> qty,
                         urgency |-> u, last |-> l, bid |-> b, ask |-> a]>>

\* place_ioc_buy / place_ioc_sell: nothing for qty <= 0; else the order at
\* round(lmt, 4), which placeOrder may refuse with an exception, and the
\* filled quantity that comes back.
IocStep ==
    /\ pc = "ioc"
    /\ LET c == events[1]
           lmt == IF c.side = "BUY" THEN BuyLmt7(c.bid, c.ask, c.last, c.urgency)
                  ELSE SellLmt7(c.bid, c.last, c.urgency)
       IN IF c.qty <= 0
          THEN events' = <<[kind |-> "ioc_none", call |-> c]>>
          ELSE \/ events' = <<[kind |-> "ioc_error", call |-> c]>>
               \/ \E f \in 0..c.qty :
                     events' = <<[kind |-> "ioc", call |-> c, lmt |-> lmt,
                                  limit |-> Round4(lmt), filled |-> f]>>
    /\ pc' = "placed"
    /\ UNCHANGED <<connected, anchor_mult, targets, tnow, was_in_session, was_in_rth,
                   pos, avg, rpnls, trail_hi, since_buy, vwv, broker_pos, query_ok,
                   idx, fills, orders>>
    /\ UNCHANGED ovars

\* Dollar-volume increments a tracker can hold (price * increment, both > 0),
\* the cumulative volumes it can have stored, beside None for a fresh one, and
\* the prices and volumes update can be called with.
VwvIncrements == {85, 86, 170}
VwvStored == {NAN, 0, 2}
VwvPrices == {NIL, 0, 43, 85}
VwvVolumes == {NIL, NAN, 0, 1, 2, 3}

RECURSIVE SeqsUpTo(_, _)
SeqsUpTo(S, n) ==
    IF n = 0 THEN {<<>>}
    ELSE LET shorter == SeqsUpTo(S, n - 1)
         IN shorter \cup {Append(q, x) : q \in shorter, x \in S}

\* The trackers update can find: a fresh one, or one that has stored a volume
\* and holds up to Window increments.
Trackers ==
    {FreshVWV} \cup
    {[dv |-> q, last_total_vol |-> v] : q \in SeqsUpTo(VwvIncrements, Window), v \in VwvStored}

\* A call of vwv[sym].update about to be made.
InitVwv ==
    /\ InitStep
    /\ pc = "vwv"
    /\ pos = Zero /\ avg = Zero /\ rpnls = Zero /\ trail_hi = Zero
    /\ since_buy = Elapsed
    /\ \E st \in Trackers : vwv = [sym \in AllSymbols |-> IF sym = "A" THEN st ELSE FreshVWV]
    /\ \E p \in VwvPrices, v \in VwvVolumes :
          events = <<[kind |-> "tick", sym |-> "A", last_price |-> p, total_volume |-> v]>>

\* z = vwv[sym].update(last_price, total_volume)
VwvStep ==
    /\ pc = "vwv"
    /\ LET c == events[1]
           u == VWVUpdate(vwv[c.sym], c.last_price, c.total_volume)
       IN /\ vwv' = [vwv EXCEPT ![c.sym] = u.st]
          /\ events' = <<[kind |-> "vwv", sym |-> c.sym, last_price |-> c.last_price,
                           total_volume |-> c.total_volume, before |-> vwv[c.sym],
                           z10 |-> u.z10]>>
    /\ pc' = "updated"
    /\ UNCHANGED <<connected, anchor_mult, targets, tnow, was_in_session, was_in_rth,
                   pos, avg, rpnls, trail_hi, since_buy, broker_pos, query_ok,
                   idx, fills, orders>>
    /\ UNCHANGED ovars

\* Times of day on either side of 10:00 and 11:00; the anchors of a symbol,
\* each absent or present; and the tickers of a symbol whose market price is
\* 8: a last trade at 8 or none yet, and for the day's open and the previous
\* close None, NaN (a field not yet filled), 0 or a price.
RefTimes == {570, 599, 600, 601, 659, 660, 959}
RefFeats ==
    {[pma_mid |-> p, ib_mid |-> i, rth_mid |-> r] : p \in {NIL, 9}, i \in {NIL, 10}, r \in {NIL, 13}}
RefLast == 8
RefTickers ==
    {[last |-> l, mkt |-> RefLast, open |-> o, close |-> c] :
        l \in {NIL, RefLast}, o \in {NIL, NAN, 0, 7}, c \in {NIL, NAN, 0, 6}}

\* An evaluation about to compute its reference.
InitRef ==
    /\ InitStep
    /\ pc = "ref"
    /\ pos = Zero /\ avg = Zero /\ rpnls = Zero /\ trail_hi = Zero
    /\ since_buy = Elapsed
    /\ vwv = [sym \in AllSymbols |-> FreshVWV]
    /\ \E t \in RefTimes, f \in RefFeats, q \in RefTickers :
          events = <<[kind |-> "anchors", sym |-> "A", t |-> t, feats |-> f, ticker |-> q]>>

\* fallback = sanitize_price(fallback_raw) or last;
\* ref = blended_ref(now, feats, fallback)
RefStep ==
    /\ pc = "ref"
    /\ LET c == events[1]
           fallback == FallbackOf(c.ticker, c.t, LastOf(c.ticker))
       IN events' = <<[kind |-> "ref", sym |-> c.sym, t |-> c.t, feats |-> c.feats,
                       ticker |-> c.ticker, fallback |-> fallback,
                       ref2 |-> blended_ref2(c.t, c.feats, fallback)]>>
    /\ pc' = "referenced"
    /\ UNCHANGED <<connected, anchor_mult, targets, tnow, was_in_session, was_in_rth,
                   pos, avg, rpnls, trail_hi, since_buy, vwv, broker_pos, query_ok,
                   idx, fills, orders>>
    /\ UNCHANGED ovars

\* ---- the clip
\* dynamic_clip_usd applied once: the classes a target can carry ('risky',
\* 'safe', anything else), the number of targets of the symbol's class, and two
\* last prices in cents, from a fraction of a cent to ten thousand dollars,
\* around every corner of the price weight (1, 25 and 100 dollars).
ClipClasses == {"risky", "safe", "other"}
ClipCounts == {1, 2, 3, 29, 30, 60}
ClipPrices == {1, 99, 100, 101, 2499, 2500, 2501, 5000, 9999, 10000, 10001, 1000000}

InitClip ==
    /\ InitStep
    /\ pc = "clip"
    /\ pos = Zero /\ avg = Zero /\ rpnls = Zero /\ trail_hi = Zero
    /\ since_buy = Elapsed
    /\ vwv = [sym \in AllSymbols |-> FreshVWV]
    /\ \E k \in ClipClasses, n \in ClipCounts, p \in ClipPrices, q \in ClipPrices :
          events = <<[kind |-> "price", sym |-> "A", class |-> k, n_class |-> n,
                      last |-> p, other |-> q]>>

ClipStep ==
    /\ pc = "clip"
    /\ LET c == events[1]
       IN events' = <<[kind |-> "clip", sym |-> c.sym, class |-> c.class, n_class |-> c.n_class,
                       last |-> c.last, other |-> c.other,
                       clip |-> class_clip(c.class, c.n_class, c.last),
                       clip_other |-> class_clip(c.class, c.n_class, c.other)]>>
    /\ pc' = "clipped"
    /\ UNCHANGED <<connected, anchor_mult, targets, tnow, was_in_session, was_in_rth,
                   pos, avg, rpnls, trail_hi, since_buy, vwv, broker_pos, query_ok,
                   idx, fills, orders>>
    /\ UNCHANGED ovars

\* ---- the sizing plan
\* Lines 646-660 applied once: rung-size multipliers (the shipped ones, equal
\* ones, decreasing ones, tiny ones), a clip in cents from one cent to
\* MAX_CLIP_USD, a last price in tenths of a cent from under a cent up, and a
\* position.
PlanMults == {<<10, 16, 23>>, <<10, 10, 10>>, <<23, 16, 10>>, <<1, 1, 1>>}
PlanClips == {1, 5000, 600000}
PlanPrices == {1, 10, 11, 8000, 50000000}
PlanPositions == {0, 1, 2, 3, 6, 7, 16, 17, 31, 32, 33, 5000000}

InitPlan ==
    /\ InitStep
    /\ pc = "plan"
    /\ pos = Zero /\ avg = Zero /\ rpnls = Zero /\ trail_hi = Zero
    /\ since_buy = Elapsed
    /\ vwv = [sym \in AllSymbols |-> FreshVWV]
    /\ \E m \in PlanMults, c \in PlanClips, l \in PlanPrices, p \in PlanPositions :
          events = <<[kind |-> "sizing", sym |-> "A", mults |-> m, clip |-> c,
                      last |-> l, pos |-> p]>>

PlanStep ==
    /\ pc = "plan"
    /\ LET c == events[1]
           shares == rung_shares(c.mults, c.clip, c.last)
           cum == running_total(shares)
       IN events' = <<[kind |-> "plan", sym |-> c.sym, mults |-> c.mults, clip |-> c.clip,
                       last |-> c.last, pos |-> c.pos,
                       ladder_shares |-> shares, cumulative_shares |-> cum,
                       active_layers |-> active_layers(cum, c.pos)]>>
    /\ pc' = "planned"
    /\ UNCHANGED <<connected, anchor_mult, targets, tnow, was_in_session, was_in_rth,
                   pos, avg, rpnls, trail_hi, since_buy, vwv, broker_pos, query_ok,
                   idx, fills, orders>>
    /\ UNCHANGED ovars

\* ---- the ladder levels
\* Lines 599-621 applied once to a record read_targets can build, a raw z and a
\* quote: either class, base percentages (tenths of a percent) under the floor
\* of 0.1, at it, the defaults and far above them (a buy of 20 % puts the
\* deeper buy levels at or under 0); z inside the clamp of [-2, 2], on its ends
\* and beyond them; last prices against a reference of 100 and of 40.
LevelRecs ==
    {[class |-> k, buy10 |-> b, sell10 |-> u, clip |-> 50] :
        k \in {"risky", "safe"}, b \in {-50, 0, 1, 20, 200}, u \in {-50, 0, 1, 15, 100}}
LevelZs == {-90, -20, -10, 0, 10, 20, 90}
LevelQuotes ==
    {<<p, 200>> : p \in {20, 84, 92, 99, 100, 101, 106, 111}} \cup {<<44, 80>>, <<39, 80>>}

InitLevels ==
    /\ InitStep
    /\ pc = "levels"
    /\ pos = Zero /\ avg = Zero /\ rpnls = Zero /\ trail_hi = Zero
    /\ since_buy = Elapsed
    /\ vwv = [sym \in AllSymbols |-> FreshVWV]
    /\ \E r \in LevelRecs, z \in LevelZs, q \in LevelQuotes :
          events = <<[kind |-> "quoted", sym |-> "A", rec |-> r,
                      inp |-> [last |-> q[1], ref2 |-> q[2], z10 |-> z]]>>

LevelsStep ==
    /\ pc = "levels"
    /\ LET c == events[1]
           inp == c.inp
       IN events' = <<[kind |-> "levels", sym |-> c.sym, rec |-> c.rec, inp |-> inp,
                       buy_momentum_ok |-> inp.z10 >= 0,
                       sell_momentum_ok |-> inp.z10 <= 0,
                       buy_levels |->
                           [i \in 1..Len(BUY_LADDER_MULTS4) |->
                               BuyLevel320000(inp.ref2, c.rec, inp.z10, BUY_LADDER_MULTS4[i])],
                       sell_levels |->
                           [i \in 1..Len(SELL_LADDER_MULTS4) |->
                               SellLevel8000000(inp.ref2, c.rec, inp.z10,
                                                SELL_LADDER_MULTS4[i])],
                       desired_buy_layers |->
                           desired_buy_layers(inp.last, inp.ref2, c.rec, inp.z10,
                                              Len(BUY_RUNG_CLIP_MULTS10)),
                       levels_hit |-> levels_hit(inp.last, inp.ref2, c.rec, inp.z10)]>>
    /\ pc' = "levelled"
    /\ UNCHANGED <<connected, anchor_mult, targets, tnow, was_in_session, was_in_rth,
                   pos, avg, rpnls, trail_hi, since_buy, vwv, broker_pos, query_ok,
                   idx, fills, orders>>
    /\ UNCHANGED ovars

\* ---- the spread filter
\* Lines 583-589 applied once, to a target of each class and to quotes whose
\* spread is 80 basis points (249 / 251), 120 (248 / 251), 180 (991 / 1009),
\* just over 180 (990 / 1009), none (locked), negative (crossed), or not
\* computable (a side missing, NaN or 0).
FilterQuotes ==
    {<<249, 251>>, <<248, 251>>, <<991, 1009>>, <<990, 1009>>, <<100, 100>>, <<251, 249>>,
     <<NIL, 251>>, <<249, NIL>>, <<NIL, NIL>>, <<NAN, 251>>, <<0, 251>>, <<249, 0>>}

InitFilter ==
    /\ InitStep
    /\ pc = "filter"
    /\ pos = Zero /\ avg = Zero /\ rpnls = Zero /\ trail_hi = Zero
    /\ since_buy = Elapsed
    /\ vwv = [sym \in AllSymbols |-> FreshVWV]
    /\ \E k \in ClipClasses, q \in FilterQuotes :
          events = <<[kind |-> "quote", sym |-> "A", class |-> k, bid |-> q[1], ask |-> q[2]]>>

FilterStep ==
    /\ pc = "filter"
    /\ LET c == events[1]
           bid == sanitize_price(c.bid)
           ask == sanitize_price(c.ask)
       IN events' = <<[kind |-> "filter", sym |-> c.sym, class |-> c.class,
                       bid |-> c.bid, ask |-> c.ask,
                       skip |-> SpreadOver(bid, ask, spr_lim(c.class))]>>
    /\ pc' = "filtered"
    /\ UNCHANGED <<connected, anchor_mult, targets, tnow, was_in_session, was_in_rth,
                   pos, avg, rpnls, trail_hi, since_buy, vwv, broker_pos, query_ok,
                   idx, fills, orders>>
    /\ UNCHANGED ovars

\* ---- the anchors
\* anchors_from_bars applied once to up to three one-minute bars of the day
\* (fetched with useRTH=False): at 09:29, 09:30, 09:59, 10:00 or 16:10, with a
\* close of 0 (no trade), 10 or 20.
BarTimes == {569, 570, 599, 600, 970}
BarCloses == {0, 10, 20}
MaxBars == 3
AllBars == {[t |-> t, close |-> c] : t \in BarTimes, c \in BarCloses}

InitBars ==
    /\ InitStep
    /\ pc = "bars"
    /\ pos = Zero /\ avg = Zero /\ rpnls = Zero /\ trail_hi = Zero
    /\ since_buy = Elapsed
    /\ vwv = [sym \in AllSymbols |-> FreshVWV]
    /\ \E bars \in SeqsUpTo(AllBars, MaxBars) :
          events = <<[kind |-> "bars", sym |-> "A", bars |-> bars]>>

BarsStep ==
    /\ pc = "bars"
    /\ events' = <<[kind |-> "anchors", sym |-> events[1].sym, bars |-> events[1].bars,
                    feats |-> anchors_from_bars(events[1].bars)]>>
    /\ pc' = "seeded"
    /\ UNCHANGED <<connected, anchor_mult, targets, tnow, was_in_session, was_in_rth,
                   pos, avg, rpnls, trail_hi, since_buy, vwv, broker_pos, query_ok,
                   idx, fills, orders>>
    /\ UNCHANGED ovars

\* ---- waiting for the fills
\* The part of place_ioc_buy / place_ioc_sell after the limit is computed: the
\* order, the polls and the aggregation.  tr.isDone() turns true after
\* done_after updates (11: not within the polls); execs are the executions the
\* Trade object holds after the polls, each with a share count (0: a report
\* without shares) and a price in 1/128 dollar (0: avgPrice missing; 85 and
\* 101 dollars, which a float holds exactly).
MaxExecs == 3
ExecShares == {0, 1, 3}
ExecPrices == {0, 10880, 12928}
Execs == {[shares |-> n, price |-> p] : n \in ExecShares, p \in ExecPrices}
DoneAfter == {0, 3, 10, 11}

RECURSIVE NotionalFrom(_, _)
\* total_notional += price * shares, over the fills with shares > 0
NotionalFrom(acc, execs) ==
    IF execs = <<>> THEN acc
    ELSE NotionalFrom(IF Head(execs).shares <= 0 THEN acc
                      ELSE Fl(acc + Fl(Head(execs).price * Head(execs).shares)),
                      Tail(execs))

\* total_shares
SharesOf(execs) ==
    SumSeq([i \in 1..Len(execs) |-> IF execs[i].shares <= 0 THEN 0 ELSE execs[i].shares])

\* A faulty aggregation that returns the plain mean of the fill prices.
AvgPriceUnweighted(execs) ==
    IF SharesOf(execs) <= 0 THEN [px |-> NIL, filled |-> 0]
    ELSE [px |-> FlDiv(SumSeq([i \in 1..Len(execs) |->
                                  IF execs[i].shares <= 0 THEN 0 ELSE execs[i].price]),
                       Cardinality({i \in 1..Len(execs) : execs[i].shares > 0})),
          filled |-> SharesOf(execs)]

\* _avg_price_and_qty(fills)
avg_price_and_qty(execs) ==
    IF SharesOf(execs) <= 0 THEN [px |-> NIL, filled |-> 0]
    ELSE [px |-> FlDiv(NotionalFrom(0, execs), SharesOf(execs)), filled |-> SharesOf(execs)]

RECURSIVE WaitsFrom(_, _)
\* for _ in range(10): if tr.isDone(): break; ib.waitOnUpdate(timeout=0.2)
WaitsFrom(i, done_after) ==
    IF i >= 10 \/ i >= done_after THEN i ELSE WaitsFrom(i + 1, done_after)

InitWait ==
    /\ InitStep
    /\ pc = "wait"
    /\ pos = Zero /\ avg = Zero /\ rpnls = Zero /\ trail_hi = Zero
    /\ since_buy = Elapsed
    /\ vwv = [sym \in AllSymbols |-> FreshVWV]
    /\ \E side \in {"BUY", "SELL"}, qty \in {-1, 0, 4}, d \in DoneAfter :
       \E x \in (IF qty <= 0 THEN {<<>>} ELSE SeqsUpTo(Execs, MaxExecs)) :
          events = <<[kind |-> "call", sym |-> "A", side |-> side, qty |-> qty,
                      done_after |-> d, execs |-> x]>>

WaitStep ==
    /\ pc = "wait"
    /\ LET c == events[1]
           r == IF c.qty <= 0 THEN [px |-> NIL, filled |-> 0] ELSE avg_price_and_qty(c.execs)
       IN events' = <<[kind |-> "returned", sym |-> c.sym, side |-> c.side, qty |-> c.qty,
                       done_after |-> c.done_after, execs |-> c.execs,
                       placed |-> IF c.qty <= 0 THEN <<>>
                                  ELSE <<[side |-> c.side, qty |-> c.qty, tif |-> "IOC"]>>,
                       waits |-> IF c.qty <= 0 THEN 0 ELSE WaitsFrom(0, c.done_after),
                       cancels |-> 0,
                       px |-> r.px, filled |-> r.filled]>>
    /\ pc' = "waited"
    /\ UNCHANGED <<connected, anchor_mult, targets, tnow, was_in_session, was_in_rth,
                   pos, avg, rpnls, trail_hi, since_buy, vwv, broker_pos, query_ok,
                   idx, fills, orders>>
    /\ UNCHANGED ovars

\* ---- the cooldown clock
\* Two ticks of one connection, times in tenths of a second.  The first tick
\* reads the clock at its top (now_ts), reaches the symbol's ladder buy after
\* the reconciliation and the symbols before it took `before` (each order
\* polls up to 10 x 0.2 s), the buy call takes `took`, and line 676 stores
\* last_buy_time = now_ts.  The second tick starts after the rest of the first,
\* the sleep of LOOP_SLEEP_SEC and `idle` further ticks' time, and reaches the
\* symbol after `before2`.
LOOP_SLEEP_SEC == 9
TickStamp == 100
Delays == {0, 10, 21, 40}
CallTimes == {0, 20}

InitClock ==
    /\ InitStep
    /\ pc = "clock"
    /\ pos = Zero /\ avg = Zero /\ rpnls = Zero /\ trail_hi = Zero
    /\ since_buy = Elapsed
    /\ vwv = [sym \in AllSymbols |-> FreshVWV]
    /\ \E b \in Delays, k \in CallTimes, i \in Delays, b2 \in Delays :
          events = <<[kind |-> "bought", sym |-> "A", now_ts |-> TickStamp,
                      before |-> b, took |-> k, idle |-> i, before2 |-> b2]>>

\* now_ts = now.timestamp() at the top of the second tick;
\* cooldown_ready = now_ts - last_buy_time[sym] >= BUY_COOLDOWN_SEC
ClockStep ==
    /\ pc = "clock"
    /\ LET c == events[1]
           last_buy_time == c.now_ts
           now_ts == c.now_ts + c.before + c.took + LOOP_SLEEP_SEC + c.idle
           cooldown_ready == now_ts - last_buy_time >= BUY_COOLDOWN_SEC
       IN events' = <<[kind |-> "cooldown", sym |-> c.sym,
                       first_tick |-> c.now_ts, first_buy |-> c.now_ts + c.before,
                       second_tick |-> now_ts, cooldown_ready |-> cooldown_ready,
                       second_buy |-> IF cooldown_ready THEN now_ts + c.before2 ELSE NIL]>>
    /\ pc' = "clocked"
    /\ UNCHANGED <<connected, anchor_mult, targets, tnow, was_in_session, was_in_rth,
                   pos, avg, rpnls, trail_hi, since_buy, vwv, broker_pos, query_ok,
                   idx, fills, orders>>
    /\ UNCHANGED ovars

NextStep ==
    \/ TradeStep \/ EntryStep \/ IocStep \/ VwvStep \/ RefStep \/ ClipStep \/ PlanStep
    \/ FilterStep \/ BarsStep \/ ClockStep \/ WaitStep \/ LevelsStep

SpecSteps ==
    (InitTrade \/ InitEntry \/ InitIoc \/ InitVwv \/ InitRef \/ InitClip \/ InitPlan
        \/ InitFilter \/ InitBars \/ InitClock \/ InitWait \/ InitLevels)
        /\ [][NextStep]_vars


\* ------------------------------------------------- the overrides file
\* POST /adjust of the dashboard: do_POST parses the request and calls
\* update_symbol_override, which rewrites the overrides file under
\* _OVERRIDES_LOCK.  Percentages are in hundredths of a percent (0.05 is 5);
\* a dict is a function on its keys.  json.dump and json.load carry a dict of
\* dicts of floats over unchanged; what a read drops or alters is what
\* _read_overrides does with the parsed value.

\* str.upper() on the symbols that occur
Upper(sym) == IF sym = "a" THEN "A" ELSE IF sym = "b" THEN "B" ELSE sym

\* max(0.05, float(v)) of a finite number or NaN: max returns its first
\* argument unless the second compares greater, which NaN never does.
Floor5(v) == IF v = NAN THEN 5 ELSE Max(5, v)

\* _read_overrides(path): {} when the file does not exist; of each payload
\* the keys buy and sell, floored; the entries that are left with a key,
\* under the upper-cased symbol.
read_overrides(f) ==
    IF ~f.exists THEN EmptyDict
    ELSE LET raw == f.data
             entry(sym) ==
                 [k \in (DOMAIN raw[sym]) \cap {"buy", "sell"} |-> Floor5(raw[sym][k])]
             kept == {sym \in DOMAIN raw : entry(sym) # EmptyDict}
         IN [S \in {Upper(sym) : sym \in kept} |->
                entry(CHOOSE sym \in kept : Upper(sym) = S)]

\* The body of update_symbol_override between the read and the write: the
\* symbol's entry with the given sides replaced, put back under the key, or
\* the key removed when the entry is empty.
put_override(overrides, symbol_key, buy, sell) ==
    LET old == IF symbol_key \in DOMAIN overrides THEN overrides[symbol_key] ELSE EmptyDict
        entry == (IF buy # NIL THEN "buy" :> Floor5(buy) ELSE EmptyDict)
                 @@ (IF sell # NIL THEN "sell" :> Floor5(sell) ELSE EmptyDict)
                 @@ old
    IN IF entry # EmptyDict THEN (symbol_key :> entry) @@ overrides
       ELSE [S \in (DOMAIN overrides) \ {symbol_key} |-> overrides[S]]

\* What POST /adjust can carry: a symbol in either case, buy_pct and sell_pct
\* absent, NaN or a number.
PostSymbols == {"a", "B"}
PostBuys == {NIL, NAN, 300}
PostSells == {NIL, 250}

\* The overrides file when the server starts: none, one written by an earlier
\* run, one edited by hand (a value under the floor, keys that are not buy or
\* sell, a lower-case symbol).
OverrideFiles ==
    {NoFile,
     [exists |-> TRUE, data |-> "B" :> (("buy" :> 200) @@ ("sell" :> 150))],
     [exists |-> TRUE,
      data |-> ("A" :> (("buy" :> 1) @@ ("note" :> 7))) @@ ("b" :> ("sell" :> 150))
               @@ ("X" :> ("note" :> 7))]}

\* run_live's variables, which the dashboard never touches, without the log.
loop_vars == <<pc, connected, anchor_mult, targets, tnow, was_in_session, was_in_rth,
               pos, avg, rpnls, trail_hi, since_buy, vwv, broker_pos, query_ok, idx,
               fills, orders>>

\* The server is up and every handler thread waits for its request; events
\* starts with the file as found and then logs each os.replace.
InitOverrides ==
    /\ pc = "serve"
    /\ connected = FALSE
    /\ anchor_mult = NIL /\ targets = <<"A", "B">>
    /\ tnow = NIL
    /\ was_in_session = "None" /\ was_in_rth = "None"
    /\ pos = Zero /\ avg = Zero /\ rpnls = Zero /\ trail_hi = Zero
    /\ since_buy = Elapsed
    /\ vwv = [sym \in AllSymbols |-> FreshVWV]
    /\ broker_pos = <<>> /\ query_ok = FALSE
    /\ idx = 1 /\ fills = 0
    /\ orders = <<>>
    /\ \E f \in OverrideFiles :
          /\ overrides_file = f
          /\ events = <<[kind |-> "file", sym |-> "-", file |-> f]>>
    /\ overrides_tmp = NoFile
    /\ overrides_lock = 0
    /\ handlers = [t \in Threads |-> IdleHandler("accept")]

\* do_POST up to the call: the symbol stripped and upper-cased, each
\* percentage given floored.
Post(t) ==
    /\ handlers[t].pc = "accept"
    /\ \E sym \in PostSymbols, b \in PostBuys, u \in PostSells :
          handlers' = [handlers EXCEPT ![t] =
              [@ EXCEPT !.pc = "call", !.symbol = Upper(sym),
                        !.buy = IF b = NIL THEN NIL ELSE Floor5(b),
                        !.sell = IF u = NIL THEN NIL ELSE Floor5(u)]]
    /\ UNCHANGED <<overrides_file, overrides_tmp, overrides_lock, events>>
    /\ UNCHANGED loop_vars

\* A faulty entry into the block that does not wait for the lock.
AcquireUnlocked(t) ==
    /\ handlers[t].pc = "call"
    /\ overrides_lock' = t
    /\ handlers' = [handlers EXCEPT ![t].pc = "read"]
    /\ UNCHANGED <<overrides_file, overrides_tmp, events>>
    /\ UNCHANGED loop_vars

\* with _OVERRIDES_LOCK: the thread blocks until the lock is free
Acquire(t) ==
    /\ handlers[t].pc = "call"
    /\ overrides_lock = 0
    /\ overrides_lock' = t
    /\ handlers' = [handlers EXCEPT ![t].pc = "read"]
    /\ UNCHANGED <<overrides_file, overrides_tmp, events>>
    /\ UNCHANGED loop_vars

\* overrides = _read_overrides(override_path)
ReadFile(t) ==
    /\ handlers[t].pc = "read"
    /\ handlers' = [handlers EXCEPT ![t] =
          [@ EXCEPT !.pc = "modify", !.overrides = read_overrides(overrides_file)]]
    /\ UNCHANGED <<overrides_file, overrides_tmp, overrides_lock, events>>
    /\ UNCHANGED loop_vars

\* entry = ...; overrides[symbol_key] = entry
Modify(t) ==
    /\ handlers[t].pc = "modify"
    /\ handlers' = [handlers EXCEPT ![t] =
          [@ EXCEPT !.pc = "dump",
                    !.overrides = put_override(@, Upper(handlers[t].symbol),
                                               handlers[t].buy, handlers[t].sell)]]
    /\ UNCHANGED <<overrides_file, overrides_tmp, overrides_lock, events>>
    /\ UNCHANGED loop_vars

\* _write_overrides: json.dump into the .tmp file
Dump(t) ==
    /\ handlers[t].pc = "dump"
    /\ overrides_tmp' = [exists |-> TRUE, data |-> handlers[t].overrides]
    /\ handlers' = [handlers EXCEPT ![t].pc = "replace"]
    /\ UNCHANGED <<overrides_file, overrides_lock, events>>
    /\ UNCHANGED loop_vars

\* _write_overrides: os.replace(tmp_path, path); it raises when another
\* thread has moved the .tmp file away, and the with block is left.
Replace(t) ==
    /\ handlers[t].pc = "replace"
    /\ IF overrides_tmp.exists
       THEN /\ overrides_file' = overrides_tmp
            /\ overrides_tmp' = NoFile
            /\ events' = Append(events,
                  [kind |-> "override", sym |-> Upper(handlers[t].symbol), thread |-> t,
                   buy |-> handlers[t].buy, sell |-> handlers[t].sell])
            /\ handlers' = [handlers EXCEPT ![t].pc = "release"]
       ELSE /\ handlers' = [handlers EXCEPT ![t].pc = "release", ![t].overrides = EmptyDict]
            /\ UNCHANGED <<overrides_file, overrides_tmp, events>>
    /\ UNCHANGED overrides_lock
    /\ UNCHANGED loop_vars

\* return overrides.get(symbol_key, {}) and the end of the with block
Release(t) ==
    /\ handlers[t].pc = "release"
    /\ overrides_lock' = 0
    /\ handlers' = [handlers EXCEPT ![t] =
          [IdleHandler("done") EXCEPT
              !.returned = IF Upper(handlers[t].symbol) \in DOMAIN handlers[t].overrides
                           THEN handlers[t].overrides[Upper(handlers[t].symbol)]
                           ELSE EmptyDict]]
    /\ UNCHANGED <<overrides_file, overrides_tmp, events>>
    /\ UNCHANGED loop_vars

NextOverrides ==
    \E t \in Threads :
        \/ Post(t) \/ Acquire(t) \/ ReadFile(t) \/ Modify(t) \/ Dump(t) \/ Replace(t)
        \/ Release(t)

SpecOverrides == InitOverrides /\ [][NextOverrides]_vars


\* ------------------------------------------------------------- properties
\* orders holds the orders of the last step and events what it logged: after
\* Sync (pc = "gate") event i tells how entry i of broker_pos ended.
OrderSet == {orders[i] : i \in 1..Len(orders)}
EventSet == {events[i] : i \in 1..Len(events)}
EvalKinds == {"no_ticker", "no_price", "spread", "error", "evaluated"}

\* Entry i of the report went through the loop body without an exception.
Processed(i) == i <= Len(events) /\ events[i].kind \in {"synced", "cover_incomplete"}

CoverOf(sym) == {o \in OrderSet : o.sym = sym /\ o.tag = "anti_short_cover"}

\* C1: in every reachable state every symbol's local position is >= 0,
\* whatever quantities the broker reported (negative ones included) and however
\* the ladder buys, trims and risk exits filled.
C1_PositionNonNegative == \A sym \in AllSymbols : pos[sym] >= 0

\* A long position built by a ladder fill, then reported short by the broker
\* and covered in full.
C1_Witness ==
    /\ pc = "gate" /\ fills > 0
    /\ \E o \in CoverOf("A") : o.before.pos > 0 /\ o.filled = o.qty /\ pos["A"] = 0

\* C2: for every symbol the broker reports with a negative quantity, the
\* reconciliation of that tick submits an urgent IOC buy for exactly |quantity|
\* shares; no reported short is mirrored as 0 without a cover order.
C2_EveryShortCovered ==
    pc = "gate" =>
        \A i \in 1..Len(broker_pos) :
            (Processed(i) /\ broker_pos[i].pos < 0) =>
                \E o \in CoverOf(broker_pos[i].sym) :
                    o.side = "BUY" /\ o.urgency = "urgent" /\ o.qty = -broker_pos[i].pos

\* C3: a cover that fills the whole |quantity| sets the symbol's position and
\* average cost to 0; one that fills less (nothing included) logs the anomaly and
\* leaves position and average cost as they were before the tick, and the loop
\* goes on to the next symbol of the report, which is mirrored as usual.
C3_CoverOutcome ==
    pc = "gate" =>
        \A i \in 1..Len(events) :
            LET e == broker_pos[i] IN
            (Processed(i) /\ e.pos < 0 /\ e.sym \in contracts) =>
                \E o \in CoverOf(e.sym) :
                    IF o.filled >= o.qty
                    THEN events[i].kind = "synced" /\ pos[e.sym] = 0 /\ avg[e.sym] = 0
                    ELSE /\ events[i].kind = "cover_incomplete"
                         /\ pos[e.sym] = o.before.pos /\ avg[e.sym] = o.before.avg
                         /\ i < Len(broker_pos) =>
                               /\ Len(events) > i
                               /\ LET n == broker_pos[i + 1] IN
                                  (events[i + 1].kind = "synced" /\ n.pos >= 0) =>
                                      /\ pos[n.sym] = n.pos
                                      /\ avg[n.sym] = IF n.pos > 0 THEN n.avg ELSE 0

\* A cover of 2 shares for a symbol held long locally fills 1; the next symbol
\* of the report is then mirrored.
C3_Witness ==
    /\ pc = "gate" /\ Len(events) >= 2
    /\ events[1].kind = "cover_incomplete" /\ events[2].kind = "synced"
    /\ \E o \in CoverOf(broker_pos[1].sym) :
          o.qty = 2 /\ o.filled = 1 /\ o.before.pos > 0 /\ pos[o.sym] = o.before.pos

\* C4: after the reconciliation of a tick whose position query succeeded, every
\* configured symbol's position is max(0, broker quantity) and its average cost
\* the broker's when that quantity is > 0, else 0 - a symbol the report does not
\* list counting as flat - except a symbol whose cover filled only in part.
C4_MirrorsBroker ==
    (pc = "gate" /\ query_ok /\ \A e \in EventSet : e.kind # "sync_error") =>
        \A sym \in contracts :
            LET listed == {i \in 1..Len(broker_pos) : broker_pos[i].sym = sym} IN
            IF listed = {}
            THEN pos[sym] = 0 /\ avg[sym] = 0
            ELSE \A i \in listed :
                    \/ events[i].kind = "cover_incomplete"
                    \/ /\ pos[sym] = Max(0, broker_pos[i].pos)
                       /\ avg[sym] = IF broker_pos[i].pos > 0 THEN broker_pos[i].avg ELSE 0

\* C5: for every symbol, position 0 implies average cost 0: every step that
\* brings the position to 0 zeroes the average cost as well.
C5_FlatMeansNoCost == \A sym \in AllSymbols : pos[sym] = 0 => avg[sym] = 0

\* An exit order sold a position with a positive average cost down to 0.
C5_Witness ==
    \E o \in OrderSet :
        /\ o.side = "SELL" /\ o.before.pos > 0 /\ o.before.avg > 0 /\ o.after.pos = 0
        /\ pos[o.sym] = 0

C7_FaultLeadsToReconnect ==
    /\ [](pc \in {"connect", "setup", "tick", "sync", "gate", "eval", "except", "finally"})
    /\ (pc = "except") ~> (pc = "connect" /\ ~connected)
    /\ (pc = "connect") ~> (pc \in {"setup", "except"})

\* A fault during the tick loop was handled: disconnected, slept, back at the
\* top of the outer loop.
C7_Witness ==
    /\ pc = "connect" /\ ~connected /\ tnow # NIL
    /\ events = <<[kind |-> "backoff", sym |-> "-"]>>

\* C8: when the evaluation of a symbol raises, the loop goes on to the next
\* symbol of the same tick, or after the last symbol to the next tick; the outer
\* handler is not entered.
C8_SymbolErrorIsolated ==
    \A i \in 1..Len(targets) :
        (Len(events) = 1 /\ events[1].kind = "error" /\ events[1].sym = targets[i]) =>
            IF i < Len(targets) THEN pc = "eval" /\ idx = i + 1 ELSE pc = "tick"

\* The first of two symbols raised; the second is up next in the same tick.
C8_Witness ==
    /\ Len(targets) = 2 /\ Len(events) = 1
    /\ events[1].kind = "error" /\ events[1].sym = targets[1]
    /\ pc = "eval" /\ idx = 2

C10_EveryOrderBooked ==
    \A o \in OrderSet :
        /\ (o.filled = 0 \/ o.px = NIL) => o.after = o.before
        /\ o.filled > 0 =>
              o.after.pos = o.before.pos + (IF o.side = "BUY" THEN o.filled ELSE -o.filled)

\* C10: the same for the orders of the per-symbol evaluation (ladder buy, ladder
\* trim, breakeven trim, hard stop, trailing stop).
C10_OnlyConfirmedFills ==
    \A o \in OrderSet :
        o.tag # "anti_short_cover" =>
            /\ (o.filled = 0 \/ o.px = NIL) => o.after = o.before
            /\ o.filled > 0 =>
                  o.after.pos = o.before.pos + (IF o.side = "BUY" THEN o.filled ELSE -o.filled)

\* A ladder buy of 2 shares filled 1.
C10_Witness ==
    \E o \in OrderSet :
        /\ o.tag = "ladder_buy" /\ o.qty = 2 /\ o.filled = 1
        /\ pos[o.sym] = o.before.pos + 1

\* ------------------------------------------------ the ladder and the exits
\* The state records the evaluation of a symbol that passed the ticker, price
\* and spread filters: events[1] holds its inputs and the symbol's state before
\* it, orders what it submitted.
Evaluated == Len(events) = 1 /\ events[1].kind \in {"evaluated", "error"}

\* It also got past the display step, as far as the ladder.
Laddered == Evaluated /\ events[1].at # "widen_levels_for_display"

\* The share thresholds of that evaluation, and the orders it logged under tag.
CumOf(e) == cumulative_shares(ClipUSD(e.sym, e.inp.last), e.inp.last)
Tagged(tag) == {o \in OrderSet : o.tag = tag}
\* The call for the order tagged tag was made: it returned, or it raised.
Submitted(tag) == Tagged(tag) # {} \/ events[1].at = tag

\* The entry rule: a ladder buy is submitted exactly when desiredBuyLayers
\* exceeds the number of cumulative thresholds <= position, the cooldown has
\* elapsed and z >= 0; its quantity is cumulative[desiredBuyLayers] minus the
\* position, which is >= 1.
EntryRule ==
    LET e == events[1]
        cum == CumOf(e)
        activeLayers == Cardinality({i \in 1..Len(cum) : cum[i] <= e.before.pos})
        desiredBuyLayers ==
            desired_buy_layers(e.inp.last, e.inp.ref2, rec(e.sym), e.inp.z10, Len(cum))
    IN /\ Submitted("ladder_buy") <=>
             /\ desiredBuyLayers > activeLayers
             /\ e.before.since_buy >= BUY_COOLDOWN_SEC
             /\ e.inp.z10 >= 0
       /\ \A o \in Tagged("ladder_buy") :
             /\ o.side = "BUY"
             /\ o.qty = cum[desiredBuyLayers] - e.before.pos
             /\ o.qty >= 1

\* C11: on every evaluated tick the entry rule decides whether a ladder buy is
\* submitted for the symbol, and for how many shares.
C11_EntryTrigger == Evaluated => EntryRule

\* The same of the evaluations that get as far as the ladder.
LadderedEntryRule == Laddered => EntryRule

\* The rules of an evaluation in the order of the code, by the tag of their
\* orders.
RuleOrder == <<"ladder_buy", "ladder_sell", "breakeven_trim", "live_stop", "live_trail">>
RuleIndex(tag) == CHOOSE i \in 1..Len(RuleOrder) : RuleOrder[i] = tag

\* No broker call of an earlier rule raised: the rule tagged tag is due in this
\* evaluation.
Due(tag) ==
    /\ Evaluated
    /\ \/ events[1].kind = "evaluated"
       \/ events[1].at = "widen_levels_for_display"
       \/ RuleIndex(events[1].at) >= RuleIndex(tag)

\* The symbol's position, average cost, realized PnL and high-water mark as
\* the earlier rules of the evaluation left them for the rule tagged tag.
SnapAt(tag) ==
    LET earlier == {i \in 1..Len(orders) : RuleIndex(orders[i].tag) < RuleIndex(tag)}
    IN IF earlier = {} THEN SnapOf(events[1].before)
       ELSE orders[CHOOSE i \in earlier : \A j \in earlier : j <= i].after

\* The trim rule: with position > 0 and z <= 0 a ladder trim is submitted
\* exactly when a sell level is <= last and activeLayers >= 1; it sells the
\* position down to the threshold of layer max(0, activeLayers - levelsHit),
\* all of it when that layer is 0.
TrimRule ==
    LET e == events[1]
        b == SnapAt("ladder_sell")
        cum == CumOf(e)
        activeLayers == Cardinality({i \in 1..Len(cum) : cum[i] <= b.pos})
        levelsHit == levels_hit(e.inp.last, e.inp.ref2, rec(e.sym), e.inp.z10)
        targetLayersAfter == Max(0, activeLayers - levelsHit)
        left == IF targetLayersAfter = 0 THEN 0 ELSE cum[targetLayersAfter]
    IN (b.pos > 0 /\ e.inp.z10 <= 0) =>
          /\ Submitted("ladder_sell") <=> (levelsHit >= 1 /\ activeLayers >= 1)
          /\ \A o \in Tagged("ladder_sell") :
                /\ o.side = "SELL"
                /\ o.qty = b.pos - left
                /\ o.filled = o.qty => o.after.pos = left

\* C13: on every evaluated tick the trim rule decides whether a ladder trim is
\* submitted for the symbol, and for how many shares.
C13_LadderTrim == Due("ladder_sell") => TrimRule

\* The same of the evaluations that get as far as the ladder.
LadderedTrimRule == (Due("ladder_sell") /\ Laddered) => TrimRule

\* C14: the orders of an evaluation come in the order ladder buy, ladder trim,
\* breakeven trim, hard stop, trailing stop, each rule at most once; every
\* sell finds a position > 0, which is the position the fills of the earlier
\* orders left, and sells no more than that: the stops all of it, the breakeven
\* trim a quarter of it (at least 1 share).
C14_ExitOrder ==
    Evaluated =>
        /\ \A i, j \in 1..Len(orders) :
              i < j => RuleIndex(orders[i].tag) < RuleIndex(orders[j].tag)
        /\ \A i \in 1..Len(orders) :
              LET o == orders[i]
                  left == IF i = 1 THEN events[1].before.pos ELSE orders[i - 1].after.pos
              IN o.side = "SELL" =>
                    /\ left > 0
                    /\ o.before.pos = left
                    /\ o.qty >= 1 /\ o.qty <= left
                    /\ o.tag \in {"live_stop", "live_trail"} => o.qty = left
                    /\ o.tag = "breakeven_trim" =>
                          o.qty = Max(1, left \div BREAKEVEN_TRIM_DIV)
                    /\ o.after.pos = left - o.filled

\* A ladder trim, a breakeven trim and the trailing stop all sold in one
\* evaluation, the stop taking what the two trims left.
C14_Witness ==
    /\ Evaluated /\ Len(orders) = 3
    /\ orders[1].tag = "ladder_sell" /\ orders[2].tag = "breakeven_trim"
    /\ orders[3].tag = "live_trail"
    /\ orders[1].filled > 0 /\ orders[2].filled > 0
    /\ orders[3].qty = events[1].before.pos - orders[1].filled - orders[2].filled
    /\ orders[3].filled = orders[3].qty /\ pos[events[1].sym] = 0

\* The hard stop: with position > 0 and average cost > 0 at the hard-stop step
\* and last <= average cost x (1 - HARD_STOP_PCT/100), an urgent sell for the
\* whole position is submitted, whatever z and the cooldown.
StopRule ==
    LET b == SnapAt("live_stop") IN
    (b.pos > 0 /\ b.avg > 0
        /\ events[1].inp.last * 100 <= b.avg * (100 - HARD_STOP_PCT)) =>
       /\ Submitted("live_stop")
       /\ \A o \in Tagged("live_stop") :
             o.side = "SELL" /\ o.urgency = "urgent" /\ o.qty = b.pos

\* C15: on every tick on which a symbol is evaluated the hard stop is applied
\* to the position the earlier rules left.
C15_HardStop == Due("live_stop") => StopRule

\* The same of the evaluations that get as far as the ladder.
LadderedStopRule == (Due("live_stop") /\ Laddered) => StopRule

\* The trailing stop, for a position > 0 at the trailing-stop step.  The mark
\* is the largest of the mark before the evaluation (when a position was held
\* then: an older mark belongs to an earlier position), the price of this
\* evaluation's buy fill and last; it is the mark kept while the position stays
\* > 0, which is never under the one before; and the urgent sell of the whole
\* position is submitted exactly when last <= mark x (1 - TRAIL_PCT/100).
TrailRule ==
    LET e == events[1]
        b == SnapAt("live_trail")
        held == IF e.before.pos > 0 THEN e.before.hi ELSE 0
        bought == {o.px : o \in {x \in Tagged("ladder_buy") : x.filled > 0}}
        paid == IF bought = {} THEN 0 ELSE CHOOSE p \in bought : TRUE
        mark == Max(Max(held, paid), e.inp.last)
    IN b.pos > 0 =>
          /\ pos[e.sym] > 0 => trail_hi[e.sym] = mark
          /\ (e.before.pos > 0 /\ pos[e.sym] > 0) => trail_hi[e.sym] >= e.before.hi
          /\ Submitted("live_trail") <=>
                e.inp.last * 1000 <= mark * (1000 - TRAIL_PCT10)
          /\ \A o \in Tagged("live_trail") :
                o.side = "SELL" /\ o.urgency = "urgent" /\ o.qty = b.pos

\* C16: on every evaluated tick the trailing stop keeps the high-water mark of
\* the position and sells the position when last is TRAIL_PCT under it.
C16_TrailingStop == Due("live_trail") => TrailRule

\* The same of the evaluations that get as far as the ladder.
LadderedTrailRule == (Due("live_trail") /\ Laddered) => TrailRule

\* The same again, of those that start with no mark left by an earlier position.
FreshTrailRule ==
    (Due("live_trail") /\ Laddered
        /\ (events[1].before.pos = 0 => events[1].before.hi = 0)) => TrailRule

\* The breakeven trim: it is submitted exactly when, at its step, position > 0,
\* average cost > 0, last >= average cost, the unrealized gain is at least
\* BREAKEVEN_MIN_UPNL_BP basis points and z <= 0; it is a normal-urgency sell
\* of max(1, floor(position x BREAKEVEN_TRIM_FRACTION)) shares, between 1 and
\* the position.
BreakevenRule ==
    LET e == events[1]
        b == SnapAt("breakeven_trim")
    IN /\ Submitted("breakeven_trim") <=>
             /\ b.pos > 0 /\ b.avg > 0 /\ e.inp.last >= b.avg
             /\ (e.inp.last - b.avg) * 10000 >= BREAKEVEN_MIN_UPNL_BP * b.avg
             /\ e.inp.z10 <= 0
       /\ \A o \in Tagged("breakeven_trim") :
             /\ o.side = "SELL" /\ o.urgency = "normal"
             /\ o.qty = Max(1, b.pos \div BREAKEVEN_TRIM_DIV)
             /\ o.qty >= 1 /\ o.qty <= b.pos

\* C17: on every evaluated tick the breakeven rule decides whether a breakeven
\* trim is submitted for the symbol, and for how many shares.
C17_BreakevenTrim == Due("breakeven_trim") => BreakevenRule

\* The same of the evaluations that get as far as the ladder.
LadderedBreakevenRule == (Due("breakeven_trim") /\ Laddered) => BreakevenRule

\* C18: every sell of an evaluation that filled f shares at p adds (p - average
\* cost before the fill) x f to the realized PnL and takes f off the position;
\* the average cost and the high-water mark stay as they were while the
\* position stays > 0 and are both 0 once it is 0; a buy leaves the realized
\* PnL alone.
C18_ExitAccounting ==
    Evaluated =>
        \A o \in OrderSet :
            /\ (o.side = "SELL" /\ o.filled > 0) =>
                  /\ o.after.rpnl = o.before.rpnl + (o.px - o.before.avg) * o.filled
                  /\ o.after.pos = o.before.pos - o.filled
                  /\ o.after.pos > 0 =>
                        o.after.avg = o.before.avg /\ o.after.hi = o.before.hi
                  /\ o.after.pos = 0 => o.after.avg = 0 /\ o.after.hi = 0
            /\ o.side = "BUY" => o.after.rpnl = o.before.rpnl

\* A breakeven trim sold part of a position at a gain and the trailing stop
\* the rest, down to 0.
C18_Witness ==
    /\ Evaluated
    /\ \E o \in Tagged("breakeven_trim") :
          o.filled > 0 /\ o.after.pos > 0 /\ o.after.rpnl > o.before.rpnl
    /\ \E o \in Tagged("live_trail") :
          /\ o.filled = o.before.pos /\ o.before.avg > 0 /\ o.before.hi > 0
          /\ rpnls[o.sym] = o.after.rpnl /\ avg[o.sym] = 0 /\ trail_hi[o.sym] = 0

\* The candidates of an IOC call that are numbers, finite and > 0.
IocValid(c) ==
    {p \in (IF c.side = "BUY" THEN {c.last, c.ask, c.bid} ELSE {c.last, c.bid}) :
        p \notin {NIL, NAN, INF} /\ p > 0}

\* The base the limit is derived from: the largest valid candidate of a buy,
\* the smallest of a sell, 0.01 when none is valid.
IocBase(c) ==
    IF IocValid(c) = {} THEN CENT4
    ELSE IF c.side = "BUY"
         THEN CHOOSE x \in IocValid(c) : \A y \in IocValid(c) : y <= x
         ELSE CHOOSE x \in IocValid(c) : \A y \in IocValid(c) : x <= y

\* 1 + bump of a buy and 1 - bump of a sell, in thousandths.
IocFactor(c) ==
    IF c.side = "BUY" THEN (IF c.urgency = "urgent" THEN 1020 ELSE 1004)
    ELSE (IF c.urgency = "urgent" THEN 980 ELSE 996)

Placed == Len(events) = 1 /\ events[1].kind = "ioc"

\* C19: the limit of an IOC order is base x (1 + bump) for a buy and
\* base x (1 - bump) for a sell, which is at or above every valid candidate of
\* a buy and at or below every valid candidate of a sell.
C19_IocLimit ==
    Placed =>
        LET e == events[1]
        IN /\ e.lmt = IocBase(e.call) * IocFactor(e.call)
           /\ \A p \in IocValid(e.call) :
                 IF e.call.side = "BUY" THEN e.lmt >= 1000 * p ELSE e.lmt <= 1000 * p

\* C19, with the floor: the limit is the larger of 0.01 and base x (1 +- bump),
\* submitted rounded to 4 decimals; a buy limit is at or above every valid
\* candidate; a sell limit is at or below every valid candidate unless the
\* floor applies, and then it is 0.01.  With last 100, ask 101, bid 99: a buy
\* at 101.404 (normal) or 103.02 (urgent), a normal sell at 98.604.
C19_IocLimitFloored ==
    Placed =>
        LET e == events[1]
            c == e.call
            raw == IocBase(c) * IocFactor(c)
        IN /\ e.lmt = Max(CENT7, raw)
           /\ 1000 * e.limit - e.lmt \in -499..500
           /\ c.side = "BUY" => \A p \in IocValid(c) : e.lmt >= 1000 * p
           /\ (c.side = "SELL" /\ raw >= CENT7) => \A p \in IocValid(c) : e.lmt <= 1000 * p
           /\ (c.side = "SELL" /\ raw < CENT7) => e.limit = CENT4
           /\ (c.last = 1000000 /\ c.bid = 990000) =>
                 /\ (c.side = "BUY" /\ c.ask = 1010000) =>
                       e.limit = (IF c.urgency = "urgent" THEN 1030200 ELSE 1014040)
                 /\ (c.side = "SELL" /\ c.urgency = "normal") => e.limit = 986040

\* The buy of the worked example was placed at normal urgency, at 101.404.
C19_Witness ==
    /\ Placed
    /\ events[1].call.side = "BUY" /\ events[1].call.urgency = "normal"
    /\ events[1].call.last = 1000000 /\ events[1].call.ask = 1010000
    /\ events[1].call.bid = 990000
    /\ IocValid(events[1].call) = {990000, 1000000, 1010000}
    /\ events[1].limit = 1014040

Updated == Len(events) = 1 /\ events[1].kind = "vwv"

\* The cumulative volume v is a number strictly greater than the stored one.
VolumeUp(st, v) ==
    /\ st.last_total_vol \notin {NIL, NAN} /\ v \notin {NIL, NAN}
    /\ v > st.last_total_vol

\* C20: update returns 0 and leaves the window of increments as it was (a) on
\* a fresh tracker, (b) whenever the cumulative volume is not strictly greater
\* than the stored one, (c) whenever the price is absent or the volume null,
\* and then the stored volume is left as it was too; the window changes only
\* on a strictly greater cumulative volume.
C20_VwvQuiet ==
    Updated =>
        LET e == events[1]
            st0 == e.before
            st1 == vwv[e.sym]
            quiet == e.z10 = 0 /\ st1.dv = st0.dv
        IN /\ st0 = FreshVWV => quiet
           /\ ~VolumeUp(st0, e.total_volume) => quiet
           /\ (e.last_price = NIL \/ e.total_volume = NIL) =>
                 quiet /\ st1.last_total_vol = st0.last_total_vol
           /\ st1.dv # st0.dv => VolumeUp(st0, e.total_volume)

\* A tracker holding increments was given a price and a smaller volume: it
\* stored the volume and nothing else.
C20_Witness ==
    /\ Updated
    /\ Len(events[1].before.dv) >= 2
    /\ events[1].last_price > 0
    /\ events[1].total_volume >= 0
    /\ events[1].before.last_total_vol > events[1].total_volume
    /\ events[1].z10 = 0
    /\ vwv[events[1].sym].dv = events[1].before.dv
    /\ vwv[events[1].sym].last_total_vol = events[1].total_volume

\* The last n elements of q (all of q when it has fewer).
LastN(q, n) == IF Len(q) <= n THEN q ELSE SubSeq(q, Len(q) - n + 1, Len(q))

\* q holds two values that differ.
Varies(q) == \E i, j \in 1..Len(q) : q[i] # q[j]

\* What holds of every update: z is within [-6, 6]; the window holds at most
\* Window increments, a new one going to the end and pushing out the oldest;
\* z is other than 0 only after a new increment, with at least 2 increments
\* before it.
VwvWindowRule ==
    /\ \A sym \in AllSymbols : Len(vwv[sym].dv) <= Window
    /\ Updated =>
          LET e == events[1]
              st0 == e.before
              st1 == vwv[e.sym]
          IN /\ e.z10 >= -60 /\ e.z10 <= 60
             /\ IF VolumeUp(st0, e.total_volume) /\ e.last_price > 0
                THEN \E x \in 1..Pow2(MantissaBits + 2) :
                        st1.dv = LastN(Append(st0.dv, x), Window)
                ELSE st1.dv = st0.dv
             /\ e.z10 # 0 => (VolumeUp(st0, e.total_volume) /\ Len(st1.dv) >= 3)

\* C21: after any sequence of updates z is within [-6, 6] and the window holds
\* at most Window increments, the oldest going first; z is other than 0 only
\* when the increments before the latest are at least 2 and not all the same,
\* so a series of equal increments gives z = 0 at every update.
C21_VwvBounded ==
    /\ VwvWindowRule
    /\ Updated =>
          LET e == events[1]
              dv == vwv[e.sym].dv
          IN /\ e.z10 # 0 => Varies(SubSeq(dv, 1, Len(dv) - 1))
             /\ ~Varies(dv) => e.z10 = 0

\* An update came back clamped at 6, and one at -6.
VwvClampedHigh == Updated /\ events[1].z10 = 60
VwvClampedLow == Updated /\ events[1].z10 = -60

Referenced == Len(events) = 1 /\ events[1].kind = "ref"

RECURSIVE FirstPresent(_, _)
\* The first of the anchors q that is present, else the fallback.
FirstPresent(q, fallback) ==
    IF q = <<>> THEN fallback
    ELSE IF Head(q) # NIL THEN Head(q) ELSE FirstPresent(Tail(q), fallback)

\* C22: before 10:00 the reference is openingRangeMid, else preMarketMid, else
\* sessionMid, else the fallback; from 10:00 to before 11:00 the mean of
\* openingRangeMid and sessionMid when both are present, else the one present,
\* else the fallback; from 11:00 on sessionMid, else openingRangeMid, else
\* preMarketMid, else the fallback.
C22_BlendedRef ==
    Referenced =>
        LET e == events[1]
            pma == e.feats.pma_mid
            ib == e.feats.ib_mid
            rth == e.feats.rth_mid
        IN e.ref2 =
             IF e.t < 600 THEN 2 * FirstPresent(<<ib, pma, rth>>, e.fallback)
             ELSE IF e.t < 660
                  THEN IF ib # NIL /\ rth # NIL THEN ib + rth
                       ELSE 2 * FirstPresent(<<ib, rth>>, e.fallback)
                  ELSE 2 * FirstPresent(<<rth, ib, pma>>, e.fallback)

\* Before 10:00 with openingRangeMid 10, preMarketMid 9, no sessionMid and a
\* fallback of 8 the reference is 10.
C22_Witness ==
    /\ Referenced
    /\ events[1].t < 600
    /\ events[1].feats = [pma_mid |-> 9, ib_mid |-> 10, rth_mid |-> NIL]
    /\ events[1].fallback = 8
    /\ events[1].ref2 = 20
    /\ events[1].ticker.open = NIL /\ events[1].ticker.close = NIL

\* The last price of a ticker: t.last, else t.close, else t.marketPrice(), the
\* first that is a positive finite number.
Usable(x) == x \notin {NIL, NAN, INF} /\ x > 0
LastPriceOf(q) == IF Usable(q.last) THEN q.last ELSE IF Usable(q.close) THEN q.close ELSE q.mkt

NoAnchor(f) == f.pma_mid = NIL /\ f.ib_mid = NIL /\ f.rth_mid = NIL

\* C23 as stated: the reference is a positive finite number, the fallback
\* handed to blended_ref is the last price, and with no anchor the reference is
\* the last price.
C23_FallbackIsLast ==
    Referenced =>
        LET e == events[1]
        IN /\ e.ref2 > 0
           /\ e.fallback = LastPriceOf(e.ticker)
           /\ NoAnchor(e.feats) => e.ref2 = 2 * LastPriceOf(e.ticker)

\* C23: the reference is a positive finite number; the fallback handed to
\* blended_ref is the day's open from 09:30 through 10:00 when the ticker holds
\* one (not None, not 0), else the previous close when it holds one, else the
\* last price - and the last price whenever the value so chosen is not a
\* positive finite number; with no anchor the reference is that fallback.
C23_ReferenceFallback ==
    Referenced =>
        LET e == events[1]
            q == e.ticker
            last == LastPriceOf(q)
            chosen == IF e.t >= 570 /\ e.t <= 600 /\ q.open \notin {NIL, 0} THEN q.open
                      ELSE IF q.close \notin {NIL, 0} THEN q.close ELSE last
        IN /\ e.ref2 > 0
           /\ e.fallback = (IF Usable(chosen) THEN chosen ELSE last)
           /\ NoAnchor(e.feats) => e.ref2 = 2 * e.fallback

\* With no anchor and a ticker that holds the open at 09:30, the reference is
\* the open, not the last price.
C23_Witness ==
    /\ Referenced
    /\ NoAnchor(events[1].feats)
    /\ events[1].t = 570
    /\ events[1].ticker.last = 8 /\ events[1].ticker.open = 7
    /\ events[1].ref2 = 14

Clipped == Len(events) = 1 /\ events[1].kind = "clip"

\* C24: dynamic_clip_usd returns a value within [MIN_CLIP_USD, MAX_CLIP_USD]
\* for every positive last price, class and number of targets; the price weight
\* is clamped, so that the clip is the same for all prices up to 25 dollars
\* and the same for all prices from 100 dollars; and the clip is non-increasing
\* in the last price.
C24_ClipBounded ==
    Clipped =>
        LET e == events[1]
        IN /\ e.clip >= 100 /\ e.clip <= 6000
           /\ e.last <= e.other => e.clip >= e.clip_other
           /\ e.last <= 2500 /\ e.other <= 2500 => e.clip = e.clip_other
           /\ e.last >= 10000 /\ e.other >= 10000 => e.clip = e.clip_other

\* Two risky targets: 5778 dollars at a price of 10 dollars, strictly inside
\* the bounds, and less at 50 dollars.
C24_Witness ==
    /\ Clipped
    /\ events[1].class = "risky" /\ events[1].n_class = 2
    /\ events[1].last = 2499 /\ events[1].other = 5000
    /\ events[1].clip = 5778
    /\ events[1].clip_other = 2889

\* The clamp is reached on both sides.
ClipAtMax == Clipped /\ events[1].clip = 6000 /\ events[1].last = 1
ClipAtMin == Clipped /\ events[1].clip = 100 /\ events[1].last = 1000000

Planned == Len(events) = 1 /\ events[1].kind = "plan"

\* C25: the cumulative share thresholds are strictly increasing and start at
\* 1 or more, each rung being 1 or more shares, and active_layers is the number
\* of thresholds the position reaches, which are the first active_layers ones.
C25_Thresholds ==
    Planned =>
        LET e == events[1]
            cum == e.cumulative_shares
            reached == {i \in 1..Len(cum) : cum[i] <= e.pos}
        IN /\ Len(cum) = Len(e.mults)
           /\ \A i \in 1..Len(cum) : e.ladder_shares[i] >= 1
           /\ cum[1] >= 1
           /\ \A i \in 1..(Len(cum) - 1) : cum[i] < cum[i + 1]
           /\ e.active_layers = Cardinality(reached)
           /\ reached = 1..e.active_layers

\* A clip of 50 dollars at 8 dollars a share: rungs of 7, 10 and 15 shares,
\* thresholds 7, 17 and 32, and a position of 17 holds two layers.
C25_Witness ==
    /\ Planned
    /\ events[1].mults = <<10, 16, 23>>
    /\ events[1].clip = 5000 /\ events[1].last = 8000
    /\ events[1].cumulative_shares = <<7, 17, 32>>
    /\ events[1].pos = 17
    /\ events[1].active_layers = 2

\* C26: display widening is presentation-only: whatever the widening step
\* did, an error raised inside it included, the orders, the broker call that
\* failed (if any) and the symbol's position, average cost, realized PnL,
\* high-water mark and last-buy time after the evaluation are those of the
\* entry/exit rules applied to the un-widened levels.
C26_WideningPresentationOnly ==
    (Evaluated /\ connected) =>
        LET e == events[1]
            s0 == [pos |-> e.before.pos, avg |-> e.before.avg, rpnl |-> e.before.rpnl,
                   hi |-> e.before.hi, since_buy |-> e.before.since_buy,
                   orders |-> <<>>, raised |-> FALSE, at |-> "-"]
        IN \E s \in Trade(e.sym, s0, e.inp.last, e.inp.ref2, e.inp.z10) :
              /\ s.orders = orders
              /\ SnapOf(s) = SnapOf(SymState(e.sym))
              /\ s.since_buy = since_buy[e.sym]
              /\ s.at = (IF e.at = "widen_levels_for_display" THEN "-" ELSE e.at)

\* The evaluation of a symbol that the price filter or the spread filter
\* skipped.
Skipped == Len(events) = 1 /\ events[1].kind \in {"no_price", "spread"}

\* The spread of a quote is over the ceiling of the symbol's class: both sides
\* are quoted and (ask - bid) / mid, in basis points, exceeds 180 (risky) or 80.
OverCeiling(e) ==
    /\ e.bid # NIL /\ e.ask # NIL
    /\ (e.ask - e.bid) * 10000 * 2
          > (IF rec(e.sym).class = "risky" THEN 180 ELSE 80) * (e.bid + e.ask)

\* The loop body ran for targets[idx] and skipped it.
SkipStep ==
    /\ pc = "eval" /\ connected' = connected
    /\ Len(events') = 1 /\ events'[1].kind \in {"no_price", "spread"}

\* C27: a symbol is skipped for its spread exactly when the spread is over the
\* ceiling of its class (never when bid or ask is missing), or for having no
\* valid last price; the skip submits no order and leaves position, average
\* cost, realized PnL, high-water mark, volatility state and last-buy time as
\* they were, reconciliation having run earlier in the tick; and it leaves the
\* targets as they were, so that the next tick evaluates the symbol again.
C27_SkippedUntouched ==
    /\ [](Len(events) = 1 /\ events[1].kind \in EvalKinds =>
            /\ events[1].kind = "spread" => OverCeiling(events[1])
            /\ events[1].kind = "no_price" => events[1].inp.last = NIL
            /\ events[1].kind \in {"evaluated", "error"} =>
                  /\ ~OverCeiling(events[1])
                  /\ events[1].inp.last # NIL
            /\ Skipped => orders = <<>> /\ ~events[1].changed)
    /\ [][SkipStep =>
            /\ events'[1].sym = targets[idx]
            /\ orders' = <<>>
            /\ UNCHANGED <<pos, avg, rpnls, trail_hi, since_buy, vwv, fills, targets>>
            /\ pc' = (IF idx = Len(targets) THEN "tick" ELSE "eval")]_vars
    /\ [][pc' = "eval" => pc \in {"gate", "eval"}]_vars
    /\ [][pc' = "gate" => pc = "sync"]_vars

\* A held symbol whose quote is 84 / 92, 909 basis points wide, is skipped.
C27_Witness ==
    /\ Skipped
    /\ events[1].kind = "spread"
    /\ events[1].bid = 84 /\ events[1].ask = 92
    /\ pos[events[1].sym] > 0
    /\ orders = <<>>

\* The filter by itself: a quote is skipped exactly when both sides are
\* positive finite numbers and the spread exceeds 180 basis points for class
\* risky and 80 for any other class.
SpreadFilterRule ==
    (Len(events) = 1 /\ events[1].kind = "filter") =>
        LET e == events[1]
            quoted == Usable(e.bid) /\ Usable(e.ask)
            ceiling == IF e.class = "risky" THEN 180 ELSE 80
        IN e.skip <=> (quoted /\ (e.ask - e.bid) * 20000 > ceiling * (e.bid + e.ask))

\* 120 basis points skip a safe symbol and not a risky one.
SafeSkipped ==
    /\ Len(events) = 1 /\ events[1].kind = "filter"
    /\ events[1].class = "safe" /\ events[1].bid = 248 /\ events[1].skip
RiskyKept ==
    /\ Len(events) = 1 /\ events[1].kind = "filter"
    /\ events[1].class = "risky" /\ events[1].bid = 248 /\ ~events[1].skip

\* A symbol without bid and ask is evaluated, not skipped.
UnquotedEvaluated ==
    /\ Len(events) = 1 /\ events[1].kind \in {"evaluated", "error"}
    /\ events[1].bid = NIL /\ events[1].ask = NIL

\* C28: per-symbol state lives for the process lifetime: the setup that
\* follows a (re)connection leaves every symbol's volatility window and last
\* cumulative volume, realized PnL, high-water mark and last-buy time as they
\* were before the disconnect.
C28_StateSurvivesReconnect ==
    [][pc = "setup" /\ pc' = "tick" => UNCHANGED <<vwv, rpnls, trail_hi, since_buy>>]_vars

Seeded == Len(events) = 1 /\ events[1].kind = "anchors" /\ pc = "seeded"

\* The closes (0 standing for no close) of the bars timed in [from, to), and
\* twice their median: the middle one of an odd number in ascending order, the
\* sum of the two middle ones of an even number; None for none.
WindowCloses(bars, from, to) ==
    LET kept == {i \in 1..Len(bars) : from <= bars[i].t /\ bars[i].t < to /\ bars[i].close > 0}
    IN [c \in BarCloses |-> Cardinality({i \in kept : bars[i].close = c})]

Median2(count) ==
    LET n == count[10] + count[20]
        \* the k-th smallest close
        At(k) == IF k <= count[10] THEN 10 ELSE 20
    IN IF n = 0 THEN NIL
       ELSE IF n % 2 = 1 THEN 2 * At((n + 1) \div 2)
       ELSE At(n \div 2) + At(n \div 2 + 1)

Twice(x) == IF x = NIL THEN NIL ELSE 2 * x

\* C29: preMarketMid is the median close of the bars before 09:30,
\* openingRangeMid of the bars in [09:30, 10:00) and sessionMid of the bars in
\* [09:30, 16:00), the median of an even number of closes being the mean of the
\* two middle ones; an anchor is None exactly when no bar qualifies.
C29_AnchorMedians ==
    Seeded =>
        LET e == events[1]
        IN /\ Twice(e.feats.pma_mid) = Median2(WindowCloses(e.bars, 0, 570))
           /\ Twice(e.feats.ib_mid) = Median2(WindowCloses(e.bars, 570, 600))
           /\ Twice(e.feats.rth_mid) = Median2(WindowCloses(e.bars, 570, 960))

\* What the code computes: the upper of the two middle closes of an even
\* number, and a session window without an end.
UpperMedian(count) ==
    LET n == count[10] + count[20]
    IN IF n = 0 THEN NIL ELSE IF n \div 2 + 1 <= count[10] THEN 10 ELSE 20

AnchorsAsCoded ==
    Seeded =>
        LET e == events[1]
        IN /\ e.feats.pma_mid = UpperMedian(WindowCloses(e.bars, 0, 570))
           /\ e.feats.ib_mid = UpperMedian(WindowCloses(e.bars, 570, 600))
           /\ e.feats.rth_mid = UpperMedian(WindowCloses(e.bars, 570, 1440))

\* Two opening-range closes of 10 and 20 give 20, not 15; a bar at 16:10
\* alone gives a session anchor.
EvenCountUpper ==
    /\ Seeded /\ Len(events[1].bars) = 2
    /\ \A i \in 1..2 : events[1].bars[i].t \in {570, 599}
    /\ events[1].bars[1].close = 10 /\ events[1].bars[2].close = 20
    /\ events[1].feats.ib_mid = 20
AfterHoursAnchor ==
    /\ Seeded /\ events[1].bars = <<[t |-> 970, close |-> 10]>>
    /\ events[1].feats.rth_mid = 10

\* The order of the blocks of a tick: a tick that finds the socket down goes
\* to the handler without an order or a change of state; the reconciliation is
\* entered from the connectivity check of a connected tick only, the gate from
\* the reconciliation only and the evaluation from the gate only, at the first
\* target; and the loop body takes the targets one at a time in their order.
TickBlocksInOrder ==
    /\ [][pc = "tick" /\ ~connected =>
            /\ pc' = "except" /\ orders' = <<>>
            /\ UNCHANGED <<pos, avg, rpnls, trail_hi, since_buy, vwv, fills>>]_vars
    /\ [][pc' = "sync" => pc = "tick" /\ connected]_vars
    /\ [][pc' = "gate" => pc = "sync"]_vars
    /\ [][pc' = "eval" => pc \in {"gate", "eval"}]_vars
    /\ [][pc = "gate" /\ pc' = "eval" => idx' = 1]_vars
    /\ [][pc = "eval" /\ connected' = connected =>
            /\ Len(events') = 1 /\ events'[1].sym = targets[idx]
            /\ pc' = (IF idx < Len(targets) THEN "eval" ELSE "tick")
            /\ idx < Len(targets) => idx' = idx + 1]_vars
    /\ [](\A o \in OrderSet :
            IF o.tag = "anti_short_cover" THEN pc = "gate" ELSE pc \in {"eval", "tick"})

\* C30: in every tick the connectivity check comes first, and a tick that
\* finds the broker disconnected reconciles nothing, evaluates nothing and
\* submits nothing; otherwise the reconciliation has processed every symbol of
\* the broker's report when the session gate is applied, before any evaluation
\* or order, and the symbols are evaluated one at a time in the target order.
C30_TickOrder ==
    /\ TickBlocksInOrder
    /\ [](pc = "gate" => \A i \in 1..Len(broker_pos) : Processed(i))

\* The top of a tick that found the socket up.
TickTop == pc = "tick" /\ pc' = "sync"

PhaseLine(kind) == \E i \in 1..Len(events') : events'[i].kind = kind

\* C31: a session-phase line is logged on a tick only when the phase differs
\* from the phase of the previous tick, or on the first tick of the process; a
\* run of ticks in one phase, with or without a reconnect in between, logs none.
C31_PhaseLinesOnChange ==
    /\ [][TickTop /\ PhaseLine("session_line") =>
            tnow = NIL \/ InSession(tnow') # InSession(tnow)]_vars
    /\ [][TickTop /\ PhaseLine("rth_line") =>
            tnow = NIL \/ InRth(tnow') # InRth(tnow)]_vars

\* Within one connection the lines are edge-triggered: a line is logged
\* exactly when the flag kept from the previous tick differs, or is None as it
\* is after every (re)connection.
PhaseLinesPerConnection ==
    /\ [][TickTop =>
            (PhaseLine("session_line") <=>
                (was_in_session = "None" \/ InSession(tnow') # (was_in_session = "True")))]_vars
    /\ [][TickTop =>
            (PhaseLine("rth_line") <=>
                (was_in_rth = "None" \/ InRth(tnow') # (was_in_rth = "True")))]_vars
    /\ [][pc = "setup" /\ pc' = "tick" =>
            was_in_session' = "None" /\ was_in_rth' = "None"]_vars

Clocked == Len(events) = 1 /\ events[1].kind = "cooldown"

CooldownByTickStamp ==
    Clocked =>
        (events[1].second_buy # NIL <=> events[1].second_tick - events[1].first_tick >= 30)

\* A second buy 0.9 s after the first.
BuysClose ==
    /\ Clocked /\ events[1].second_buy # NIL
    /\ events[1].second_buy - events[1].first_buy = 9

Returned == Len(events) = 1 /\ events[1].kind = "returned"

\* The executions of a call that carry shares, their number of shares, the
\* dollars they traded and their lowest and highest price.
Counted(e) == {i \in 1..Len(e.execs) : e.execs[i].shares > 0}
CountedShares(e) == SumSeq([i \in 1..Len(e.execs) |-> Max(0, e.execs[i].shares)])
CountedDollars(e) ==
    SumSeq([i \in 1..Len(e.execs) |-> Max(0, e.execs[i].shares) * e.execs[i].price])
Lowest(e) == CHOOSE p \in {e.execs[i].price : i \in Counted(e)} :
                \A i \in Counted(e) : p <= e.execs[i].price
Highest(e) == CHOOSE p \in {e.execs[i].price : i \in Counted(e)} :
                 \A i \in Counted(e) : p >= e.execs[i].price

\* The frame of a call: nothing placed and (none, 0) for qty <= 0; else one
\* IOC order for qty, at most 10 polls (as many as it takes the order to be
\* done), no cancel, and the shares of the executions that carry shares.
CallFrame(e) ==
    /\ e.cancels = 0
    /\ e.qty <= 0 => e.placed = <<>> /\ e.waits = 0 /\ e.px = NIL /\ e.filled = 0
    /\ e.qty > 0 =>
          /\ e.placed = <<[side |-> e.side, qty |-> e.qty, tif |-> "IOC"]>>
          /\ e.waits = Min(10, e.done_after)
          /\ e.filled = CountedShares(e)
          /\ e.px = NIL <=> Counted(e) = {}

\* C33 as stated: the price returned is the volume-weighted average of the
\* fills, between the lowest and the highest fill price.
C33_AverageBetweenFills ==
    Returned =>
        /\ CallFrame(events[1])
        /\ events[1].px # NIL =>
              /\ Lowest(events[1]) <= events[1].px
              /\ events[1].px <= Highest(events[1])

\* C33: the price returned is the volume-weighted average of the fills as
\* floating-point arithmetic computes it: within one rounding per operation
\* (a product and an addition per fill, and the division) of the exact
\* average, hence of the interval from the lowest to the highest fill price.
C33_AverageOfFills ==
    Returned =>
        LET e == events[1]
            slack == 2 * (Cardinality(Counted(e)) + 1)
            unit == Pow2(MantissaBits)
        IN /\ CallFrame(e)
           /\ e.px # NIL =>
                 /\ e.px * e.filled * unit >= CountedDollars(e) * (unit - slack)
                 /\ e.px * e.filled * unit <= CountedDollars(e) * (unit + slack)
                 /\ e.px * unit >= Lowest(e) * (unit - slack)
                 /\ e.px * unit <= Highest(e) * (unit + slack)

\* One share at 85 dollars and three at 101, done after 3 polls: 4 shares at 97.
C33_Witness ==
    /\ Returned
    /\ events[1].qty = 4 /\ events[1].done_after = 3
    /\ events[1].execs = <<[shares |-> 1, price |-> 10880], [shares |-> 3, price |-> 12928]>>
    /\ events[1].waits = 3
    /\ events[1].filled = 4 /\ events[1].px = 12416

\* The update was given a price and a volume, and went past the first return.
Fed(e) == e.last_price \notin {NIL, 0} /\ e.total_volume # NIL

\* The update appended an increment: the window grew, or it was full and
\* moved up by one.
Appended(st0, st1) ==
    \/ Len(st1.dv) = Len(st0.dv) + 1 /\ SubSeq(st1.dv, 1, Len(st0.dv)) = st0.dv
    \/ /\ Len(st0.dv) = Window /\ Len(st1.dv) = Window
       /\ SubSeq(st1.dv, 1, Window - 1) = Tail(st0.dv)

Number(v) == v \notin {NIL, NAN}

\* C34 as stated: the stored cumulative volume never decreases, and an
\* appended increment is the price times the rise of the volume, > 0 for a
\* positive price.
C34_StoredVolumeNeverDecreases ==
    Updated =>
        LET e == events[1]
            st0 == e.before
            st1 == vwv[e.sym]
        IN /\ (Number(st0.last_total_vol) /\ Number(st1.last_total_vol)) =>
                 st1.last_total_vol >= st0.last_total_vol
           /\ st1.dv # st0.dv =>
                 /\ st1.dv[Len(st1.dv)] = Fl(e.last_price * (e.total_volume - st0.last_total_vol))
                 /\ e.last_price > 0 => st1.dv[Len(st1.dv)] > 0

\* C34: an update with a price and a volume stores that volume, smaller ones
\* included, and any other update stores nothing; an increment is appended
\* exactly when the update has a price and a volume strictly greater than the
\* stored one, and it is the float of price x (volume - stored volume), > 0 for
\* a positive price.
C34_StoresLatestVolume ==
    Updated =>
        LET e == events[1]
            st0 == e.before
            st1 == vwv[e.sym]
            rise == Fed(e) /\ Number(st0.last_total_vol) /\ Number(e.total_volume)
                    /\ e.total_volume > st0.last_total_vol
        IN /\ Fed(e) => st1.last_total_vol = e.total_volume
           /\ ~Fed(e) => st1 = st0
           /\ ~rise => st1.dv = st0.dv
           /\ rise =>
                 /\ Appended(st0, st1)
                 /\ st1.dv[Len(st1.dv)] = Fl(e.last_price * (e.total_volume - st0.last_total_vol))
                 /\ e.last_price > 0 => st1.dv[Len(st1.dv)] > 0

\* A tracker that had stored 2 is given 0 and then stands at 0.
StoredVolumeFell ==
    /\ Updated
    /\ events[1].before.last_total_vol = 2
    /\ events[1].total_volume = 0
    /\ vwv[events[1].sym].last_total_vol = 0

\* A tracker at volume 0 holding two increments of 86 is given price 85 and
\* volume 2: it appends 170 and stores 2.
C34_Witness ==
    /\ Updated
    /\ events[1].before.last_total_vol = 0
    /\ events[1].before.dv = <<86, 86>>
    /\ events[1].last_price = 85 /\ events[1].total_volume = 2
    /\ vwv[events[1].sym].dv = <<86, 86, 170>>
    /\ vwv[events[1].sym].last_total_vol = 2

\* C35: a disconnect while a tick evaluates its symbols aborts the tick: with
\* the socket down the loop evaluates no further symbol and submits no further
\* order, and control passes to the outer handler.
C35_DisconnectAbortsTick ==
    [][pc = "eval" /\ ~connected =>
          pc' = "except" /\ orders' = <<>> /\ UNCHANGED <<pos, avg, rpnls, trail_hi, vwv>>]_vars

\* What the code does with the socket down: it goes through the remaining
\* symbols, no order of theirs gets through, and the connectivity check of the
\* next tick hands over to the outer handler.
DisconnectSeenNextTick ==
    /\ [][pc = "eval" /\ ~connected =>
            /\ Len(events') = 1 /\ events'[1].sym = targets[idx]
            /\ orders' = <<>>
            /\ pc' = (IF idx < Len(targets) THEN "eval" ELSE "tick")]_vars
    /\ [][pc = "tick" /\ ~connected => pc' = "except"]_vars

\* A symbol evaluated with the socket down, its volatility state updated.
EvaluatedDisconnected ==
    /\ ~connected /\ Len(events) = 1 /\ events[1].kind \in EvalKinds
    /\ events[1].changed

\* The state holds the ladder levels computed from a record, a z and a quote.
Levelled == Len(events) = 1 /\ events[1].kind = "levels"

\* Every buy level is under the reference and every sell level over it, and
\* last is not both at or under a buy level and at or over a sell level.
LevelsApart(e) ==
    /\ \A i \in 1..Len(e.buy_levels) : e.buy_levels[i] < e.inp.ref2 * 160000
    /\ \A i \in 1..Len(e.sell_levels) : e.sell_levels[i] > e.inp.ref2 * 4000000
    /\ ~(e.desired_buy_layers > 0 /\ e.levels_hit > 0)

\* C36: in one evaluation of a symbol a ladder buy and a ladder trim are never
\* both submitted; with a positive reference every buy level is strictly below
\* the reference and every sell level strictly above it, for any z and any
\* base percentages, so last is never under a buy level and over a sell level
\* at once.
C36_NeverBuyAndTrim ==
    /\ Evaluated => ~(Submitted("ladder_buy") /\ Submitted("ladder_sell"))
    /\ (Levelled /\ events[1].inp.ref2 > 0) => LevelsApart(events[1])

\* Levels far apart from the defaults were computed: a buy level at or under
\* 0 and a price that reaches a sell level.
LevelsStretched ==
    /\ Levelled
    /\ \E i \in 1..Len(events[1].buy_levels) : events[1].buy_levels[i] <= 0
    /\ events[1].levels_hit > 0

\* An evaluation at z = 0 of a held position of one layer or more whose
\* ladder buy filled: the trim's conditions on position and momentum hold
\* right after the buy.
C36_Witness ==
    /\ Evaluated /\ events[1].kind = "evaluated"
    /\ events[1].inp.z10 = 0
    /\ events[1].before.pos >= CumOf(events[1])[1]
    /\ \E o \in Tagged("ladder_buy") : o.filled > 0 /\ o.after.pos > 0
    /\ Tagged("ladder_sell") = {}

\* C37: with fills of no more than the ordered quantity, the position right
\* after a ladder buy fill is at most the last cumulative threshold of the
\* evaluation's sizing plan, and no ladder buy is submitted while the position
\* is at or above that threshold.
C37_ExposureCap ==
    Evaluated =>
        LET cum == CumOf(events[1])
            cap == cum[Len(cum)]
        IN /\ Submitted("ladder_buy") => events[1].before.pos < cap
           /\ \A o \in Tagged("ladder_buy") :
                 /\ o.before.pos < cap
                 /\ o.qty <= cap - o.before.pos
                 /\ o.filled <= o.qty => o.after.pos <= cap

\* A ladder buy on top of a held position filled in full and brought the
\* position to the last threshold exactly.
C37_Witness ==
    /\ Evaluated
    /\ \E o \in Tagged("ladder_buy") :
          /\ o.before.pos > 0 /\ o.filled = o.qty
          /\ o.after.pos = CumOf(events[1])[Len(CumOf(events[1]))]

\* An evaluation of a position at or over the last threshold with the price
\* under every buy level, z >= 0 and the cooldown over: no ladder buy.
FullLadderHeld ==
    /\ Evaluated /\ events[1].kind = "evaluated"
    /\ events[1].before.pos >= CumOf(events[1])[Len(CumOf(events[1]))]
    /\ events[1].before.since_buy >= BUY_COOLDOWN_SEC /\ events[1].inp.z10 >= 0
    /\ desired_buy_layers(events[1].inp.last, events[1].inp.ref2, rec(events[1].sym),
                          events[1].inp.z10, Len(CumOf(events[1]))) = Len(CumOf(events[1]))

\* The shares the orders i..Len(orders) of the given side filled.
RECURSIVE FilledFrom(_, _)
FilledFrom(i, side) ==
    IF i > Len(orders) THEN 0
    ELSE (IF orders[i].side = side THEN orders[i].filled ELSE 0) + FilledFrom(i + 1, side)

\* C38: every sell order of an evaluation (ladder trim, breakeven trim, hard
\* stop, trailing stop) is for at least 1 share and at most the local position
\* at its submission, and the sell fills of the evaluation total at most the
\* position held when it began plus its buy fill.
C38_SellsWithinHolding ==
    Evaluated =>
        /\ \A o \in OrderSet :
              o.side = "SELL" =>
                  /\ o.tag \in {"ladder_sell", "breakeven_trim", "live_stop", "live_trail"}
                  /\ 1 <= o.qty /\ o.qty <= o.before.pos
                  /\ o.filled <= o.qty
        /\ FilledFrom(1, "SELL") <= events[1].before.pos + FilledFrom(1, "BUY")
        /\ pos[events[1].sym]
              = events[1].before.pos + FilledFrom(1, "BUY") - FilledFrom(1, "SELL")

\* A ladder buy filled on top of a held position and a stop of the same
\* evaluation sold all of it, the shares just bought included.
C38_Witness ==
    /\ Evaluated /\ events[1].before.pos > 0
    /\ \E b \in Tagged("ladder_buy") :
          /\ b.filled > 0
          /\ \E o \in Tagged("live_stop") \cup Tagged("live_trail") :
                o.filled = events[1].before.pos + b.filled
    /\ FilledFrom(1, "SELL") = events[1].before.pos + FilledFrom(1, "BUY")

\* Three sells of one evaluation, each filled in part or in full.
ThreeSells ==
    /\ Evaluated
    /\ Cardinality({o \in OrderSet : o.side = "SELL" /\ o.filled > 0}) = 3

\* The symbol's turn got as far as a usable last price: it ended at the spread
\* filter, in an exception, or at the end of the loop body.
Priced == Len(events) = 1 /\ events[1].kind \in {"spread", "error", "evaluated"}

\* The position and average cost the hard stop of this turn reads, or would
\* have read: what the earlier rules left, the state before the turn when
\* none of them ran.
AtStop ==
    IF events[1].kind = "spread" \/ events[1].at = "widen_levels_for_display"
    THEN SnapOf(events[1].before)
    ELSE SnapAt("live_stop")

\* last <= average cost x (1 - HARD_STOP_PCT/100) on a held position
StopLevelBreached ==
    /\ Priced
    /\ AtStop.pos > 0 /\ AtStop.avg > 0
    /\ events[1].inp.last * 100 <= AtStop.avg * (100 - HARD_STOP_PCT)

\* C39: in regular hours, on every tick on which a symbol with a usable last
\* price, position > 0 and average cost > 0 has last <= average cost x
\* (1 - HARD_STOP_PCT/100), an urgent sell of the whole position is submitted,
\* whatever the spread, z, the cooldown and the outcome of the earlier steps of
\* the evaluation.
C39_StopNotSuppressed ==
    StopLevelBreached =>
        /\ Submitted("live_stop")
        /\ \A o \in Tagged("live_stop") : o.urgency = "urgent" /\ o.qty = o.before.pos

\* The spread filter ended the turn of a position at or under its stop level.
StopSkippedByCeiling == StopLevelBreached /\ events[1].kind = "spread"

\* A broker call of an earlier rule raised and ended the turn of a position at
\* or under its stop level.
StopSkippedByEarlierError ==
    /\ StopLevelBreached /\ events[1].kind = "error"
    /\ events[1].at \in {"ladder_buy", "ladder_sell", "breakeven_trim"}

\* The display step raised and ended the turn of a position at or under its
\* stop level.
StopSkippedByDisplay ==
    /\ StopLevelBreached /\ events[1].kind = "error"
    /\ events[1].at = "widen_levels_for_display"

\* Once the turn reaches the hard stop, nothing else decides: a breached stop
\* level is followed by the urgent sell of the whole position.
StopAtItsStep ==
    (StopLevelBreached /\ events[1].kind # "spread" /\ Due("live_stop") /\ Laddered) =>
        /\ Submitted("live_stop")
        /\ \A o \in Tagged("live_stop") : o.urgency = "urgent" /\ o.qty = o.before.pos

\* The dashboard serves; the updates applied so far are events[2..].
Serving == pc = "serve"
AppliedUpdates == 2..Len(events)

\* The symbols the file can hold, and the value it holds for a symbol's side
\* (NIL: none).
OverrideSymbols == {"A", "B", "X", "a", "b"}
StoredValue(S, k) ==
    IF S \in DOMAIN overrides_file.data /\ k \in DOMAIN overrides_file.data[S]
    THEN overrides_file.data[S][k] ELSE NIL

\* The value the file as found at the start gives a symbol's side: that of the
\* entry spelled S in either case, raised to 0.05 when under it.
FoundValue(S, k) ==
    LET f == events[1].file
        spelled == {sym \in DOMAIN f.data : Upper(sym) = S /\ k \in DOMAIN f.data[sym]}
    IN IF ~f.exists \/ spelled = {} THEN NIL
       ELSE Max(5, f.data[CHOOSE sym \in spelled : TRUE][k])

\* The value of the last update applied to S that carried side k; the value
\* found at the start when no update carried it.
LastValue(S, k) ==
    LET carried == {i \in AppliedUpdates : events[i].sym = S /\ events[i][k] # NIL}
    IN IF carried = {} THEN FoundValue(S, k)
       ELSE events[CHOOSE i \in carried : \A j \in carried : j <= i][k]

\* Threads between the acquisition of the lock and its release.
InBlock == {t \in Threads : handlers[t].pc \in {"read", "modify", "dump", "replace", "release"}}

\* C40: update_symbol_override runs under one lock, so after any interleaving
\* of updates from parallel handler threads the file holds for every symbol
\* and side the value of the last update applied to it that carried the side
\* (an update to one symbol leaves every other symbol as it was), only under
\* the keys buy and sell, and every stored value is >= 0.05.
C40_OverridesAtomic ==
    Serving =>
        /\ Cardinality(InBlock) <= 1
        /\ \A t \in InBlock : overrides_lock = t
        /\ AppliedUpdates # {} =>
              /\ overrides_file.exists
              /\ \A S \in OverrideSymbols, k \in {"buy", "sell"} :
                    StoredValue(S, k) = LastValue(S, k)
              /\ \A S \in DOMAIN overrides_file.data :
                    /\ DOMAIN overrides_file.data[S] # {}
                    /\ DOMAIN overrides_file.data[S] \subseteq {"buy", "sell"}
                    /\ \A k \in DOMAIN overrides_file.data[S] :
                          overrides_file.data[S][k] >= 5

\* Two threads updated different symbols, the second waiting at the lock
\* while the first rewrote the file; the file holds both updates.
C40_Witness ==
    /\ Serving /\ Len(events) = 3
    /\ \A t \in Threads : handlers[t].pc = "done"
    /\ events[2].sym = "A" /\ events[3].sym = "B"
    /\ events[2].buy = 300 /\ events[3].sell = 250
    /\ StoredValue("A", "buy") = 300 /\ StoredValue("B", "sell") = 250

\* A thread waits at the lock while another is between the read and the write.
WaitingAtLock ==
    /\ Serving
    /\ \E t, w \in Threads :
          handlers[t].pc = "dump" /\ handlers[w].pc = "call" /\ overrides_lock = t

\* Two updates of one symbol: the file holds the sides of the later one, and
\* of the earlier one the side the later one did not carry.
SameSymbolTwice ==
    /\ Serving /\ Len(events) = 3
    /\ events[2].sym = "A" /\ events[3].sym = "A"
    /\ events[2].buy = 300 /\ events[2].sell = 250
    /\ events[3].buy = 5 /\ events[3].sell = NIL
    /\ StoredValue("A", "buy") = 5 /\ StoredValue("A", "sell") = 250

\* An update rewrote a hand-edited file: the unknown key and the entry
\* without buy or sell are gone, the value under the floor is raised.
HandEditedFileCleaned ==
    /\ Serving /\ Len(events) = 2 /\ events[2].sym = "B"
    /\ "X" \in DOMAIN events[1].file.data
    /\ DOMAIN overrides_file.data = {"A", "B"}
    /\ StoredValue("A", "buy") = 5

\* A price level in tenths of a dollar, on the scale of buy_levels.
Tenths(x) == x * 320000

====
